---------------------------- MODULE Spec2Model ----------------------------
(***************************************************************************)
(* Ed25519VerificationKey2020: the key pair entity, its multibase /        *)
(* multicodec codec, the byte validator and the node Ed25519 adapter.      *)
(*                                                                         *)
(* JavaScript values are encoded as sequences: a string is the sequence of *)
(* its characters (one-character strings), `undefined` and a number are    *)
(* reserved one-element sequences whose element is no single character.    *)
(* Byte arrays (Uint8Array, Buffer) are sequences of 0..255.  Objects are  *)
(* functions from property names to values; a property that is absent is   *)
(* not in the DOMAIN.                                                      *)
(***************************************************************************)
EXTENDS Integers, Sequences, FiniteSets, TLC

VARIABLES keyPair, origin, result, instances, objects, requests

vars == <<keyPair, origin, result, instances, objects, requests>>

\* a caller's session with one kept instance: keyPair, origin, result
session == <<keyPair, origin, result>>
\* instances in use together with the signer and verifier objects obtained
\* from them and the sign and verify calls made through these objects
handles == <<instances, objects, requests>>

----------------------------------------------------------------------------
(* JavaScript values *)

Undefined == <<"undefined">>
Number123 == <<"number:123">>
NoValue == <<"[none]">>

IsString(v) == \A i \in 1..Len(v) : v[i] \notin {"undefined", "number:123", "[none]"}
\* !v : undefined and the empty string are falsy, 123 and non-empty strings are not
Falsy(v) == v = Undefined \/ v = <<>>
Truthy(v) == ~Falsy(v)

Has(o, f) == f \in DOMAIN o
Get(o, f) == IF f \in DOMAIN o THEN o[f] ELSE Undefined
EmptyObject == [f \in {} |-> Undefined]
\* an object with the property f when cond holds, without it otherwise
When(cond, f, v) == IF cond THEN f :> v ELSE EmptyObject
\* a boolean option that defaults to false
Flag(o, f) == IF f \in DOMAIN o THEN o[f] ELSE FALSE

Fill(b, n) == [i \in 1..n |-> b]
Reverse(s) == [i \in 1..Len(s) |-> s[Len(s) + 1 - i]]
\* Array.prototype.slice(start) / String.prototype.substr(start), 0-based start
SliceFrom(s, start) == IF start >= Len(s) THEN <<>> ELSE SubSeq(s, start + 1, Len(s))
\* typed-array / string indexing, 0-based; -1 stands for `undefined`
At(s, i) == IF i + 1 <= Len(s) THEN s[i + 1] ELSE -1

----------------------------------------------------------------------------
(* Constants of the suite *)

\* type tags and URLs are never indexed: each is a one-element sequence
SUITE_ID == <<"Ed25519VerificationKey2020">>
LEGACY_SUITE_ID == <<"Ed25519VerificationKey2018">>
JWK_SUITE_ID == <<"JsonWebKey2020">>
SUITE_CONTEXT == <<"https://w3id.org/security/suites/ed25519-2020/v1">>
MULTIBASE_BASE58BTC_HEADER == "z"
MULTICODEC_ED25519_PUB_HEADER == <<237, 1>>
MULTICODEC_ED25519_PRIV_HEADER == <<128, 38>>
PUBLIC_KEY_LENGTH == 32
SEED_LENGTH == 32
SECRET_KEY_LENGTH == 64

DER_PRIVATE_KEY_PREFIX ==
  <<48, 46, 2, 1, 0, 48, 5, 6, 3, 43, 101, 112, 4, 34, 4, 32>>
DER_PUBLIC_KEY_PREFIX == <<48, 42, 48, 5, 6, 3, 43, 101, 112, 3, 33, 0>>

----------------------------------------------------------------------------
(* Errors and outcomes of a call *)

Err(name, message, code, shown) ==
  [name |-> name, message |-> message, code |-> code, shown |-> shown]
NoError == Err("none", "", "undefined", NoValue)

Return(v) == [threw |-> FALSE, error |-> NoError, value |-> v]
Throw(e) == [threw |-> TRUE, error |-> e, value |-> Undefined]

\* reading a property of `undefined`
UndefinedReadError ==
  Err("TypeError", "Cannot read properties of undefined", "undefined", NoValue)

----------------------------------------------------------------------------
(* base58-universal: encode / decode over the bitcoin alphabet *)

ALPHABET ==
  <<"1", "2", "3", "4", "5", "6", "7", "8", "9",
    "A", "B", "C", "D", "E", "F", "G", "H", "J", "K", "L", "M", "N", "P", "Q",
    "R", "S", "T", "U", "V", "W", "X", "Y", "Z",
    "a", "b", "c", "d", "e", "f", "g", "h", "i", "j", "k", "m", "n", "o", "p",
    "q", "r", "s", "t", "u", "v", "w", "x", "y", "z">>
BASE == Len(ALPHABET)
WHITESPACE == {" "}

\* while(carry > 0) { arr.push(carry % radix); carry = (carry / radix) | 0; }
RECURSIVE _pushCarry(_, _, _)
_pushCarry(arr, carry, radix) ==
  IF carry > 0
  THEN _pushCarry(Append(arr, carry % radix), carry \div radix, radix)
  ELSE arr

\* for(j = lo..hi) { carry += arr[j] * mul; arr[j] = carry % radix;
\*                   carry = (carry / radix) | 0; }     st = <<arr so far, carry>>
\* The range is split in halves, the left half first, to keep the evaluation
\* shallow; the digits are visited in the loop's order.
RECURSIVE _carryRange(_, _, _, _, _, _)
_carryRange(arr, lo, hi, st, mul, radix) ==
  IF lo > hi THEN st
  ELSE IF lo = hi
  THEN LET c == st[2] + arr[lo] * mul
       IN <<Append(st[1], c % radix), c \div radix>>
  ELSE LET mid == (lo + hi) \div 2
           left == _carryRange(arr, lo, mid, st, mul, radix)
       IN IF Len(left) = 2
          THEN _carryRange(arr, mid + 1, hi, left, mul, radix)
          ELSE left

\* one pass of the outer loop: arr = arr * mul + value, little-endian in radix
_mulAdd(arr, value, mul, radix) ==
  LET st == _carryRange(arr, 1, Len(arr), <<<<>>, value>>, mul, radix)
  IN _pushCarry(st[1], st[2], radix)

\* for(i = lo..hi) arr = arr * mul + input[i]
RECURSIVE _convertRange(_, _, _, _, _, _)
_convertRange(input, lo, hi, arr, mul, radix) ==
  IF lo > hi THEN arr
  ELSE IF lo = hi THEN _mulAdd(arr, input[lo], mul, radix)
  ELSE LET mid == (lo + hi) \div 2
           left == _convertRange(input, lo, mid, arr, mul, radix)
       IN IF Len(left) > 0
          THEN _convertRange(input, mid + 1, hi, left, mul, radix)
          ELSE left

\* for(i = 0; input[i] === zero && i < input.length - 1; ++i)
_leadingZeros(input, zero) ==
  IF \E k \in 1..(Len(input) - 1) : input[k] # zero
  THEN (CHOOSE k \in 1..(Len(input) - 1) :
          input[k] # zero /\ \A m \in 1..(k - 1) : input[m] = zero) - 1
  ELSE Len(input) - 1

_encode(input) ==
  IF Len(input) = 0 THEN <<>>
  ELSE LET digits == _convertRange(input, 1, Len(input), <<0>>, 256, BASE)
       IN Fill(ALPHABET[1], _leadingZeros(input, 0)) \o
          [i \in 1..Len(digits) |-> ALPHABET[digits[Len(digits) + 1 - i] + 1]]

\* the reverse alphabet table; -1 stands for `undefined`
_reverseAlphabet(c) ==
  IF \E i \in 1..BASE : ALPHABET[i] = c
  THEN (CHOOSE i \in 1..BASE : ALPHABET[i] = c) - 1
  ELSE -1

\* input.replace(/\s/g, '')
_stripWhitespace(input) == SelectSeq(input, LAMBDA c : c \notin WHITESPACE)

\* an absent byte array (`undefined` where a Uint8Array is expected)
NoBytes == <<-1>>

\* returns NoBytes (undefined) for a character outside the alphabet
_decode(input) ==
  IF Len(input) = 0 THEN <<>>
  ELSE LET stripped == _stripWhitespace(input)
           values == [i \in 1..Len(stripped) |-> _reverseAlphabet(stripped[i])]
       IN IF \E i \in 1..Len(values) : values[i] < 0 THEN NoBytes
          ELSE LET bytes == _convertRange(values, 1, Len(values), <<0>>, BASE, 256)
                   zeros == IF Len(stripped) = 0 THEN 0
                            ELSE _leadingZeros(stripped, ALPHABET[1])
               IN Reverse(bytes \o Fill(0, zeros))


----------------------------------------------------------------------------
(* lib/validators.js *)

BytesMessage(expectedLength) ==
  IF expectedLength = 32 THEN "\"bytes\" must be a 32-byte Uint8Array."
  ELSE IF expectedLength = 64 THEN "\"bytes\" must be a 64-byte Uint8Array."
  ELSE "\"bytes\" must be a Uint8Array of the expected length."

\* a validator that reports a wrong length as a TypeError without a code
checkKeyBytes_typeError(bytes, expectedLength, code) ==
  IF bytes = NoBytes
  THEN Err("TypeError", "\"bytes\" must be a Uint8Array.", "undefined", NoValue)
  ELSE IF Len(bytes) # expectedLength
  THEN Err("TypeError", BytesMessage(expectedLength), "undefined", NoValue)
  ELSE NoError

\* returns NoError on success, the thrown error otherwise
checkKeyBytes(bytes, expectedLength, code) ==
  IF bytes = NoBytes
  THEN Err("TypeError", "\"bytes\" must be a Uint8Array.", "undefined", NoValue)
  ELSE IF Len(bytes) # expectedLength
  THEN Err("DataError", BytesMessage(expectedLength), code, NoValue)
  ELSE NoError

----------------------------------------------------------------------------
(* lib/ed25519.js: the node adapter *)

\* The Ed25519 point derived from a seed (node's createPublicKey).  The curve
\* arithmetic is outside the repository: any fixed injective map of 32-byte
\* seeds to 32-byte keys stands for it.
Ed25519PublicKey(seed) ==
  [i \in 1..PUBLIC_KEY_LENGTH |-> (seed[i] * 5 + 13 * i + 89) % 256]

StartsWith(buffer, prefix) ==
  Len(buffer) >= Len(prefix) /\ SubSeq(buffer, 1, Len(prefix)) = prefix

\* returns NoBytes when it throws
getKeyMaterial(buffer) ==
  IF StartsWith(buffer, DER_PUBLIC_KEY_PREFIX)
  THEN SliceFrom(buffer, Len(DER_PUBLIC_KEY_PREFIX))
  ELSE IF StartsWith(buffer, DER_PRIVATE_KEY_PREFIX)
  THEN SliceFrom(buffer, Len(DER_PRIVATE_KEY_PREFIX))
  ELSE NoBytes

\* a DER encoding that takes the last 32 bytes of the 64-byte private key
privateKeyDerEncode_lastHalf(privateKeyBytes, seedBytes) ==
  IF privateKeyBytes = NoBytes /\ seedBytes = NoBytes
  THEN Throw(Err("TypeError", "privateKeyBytes or seedBytes is required.",
                 "undefined", NoValue))
  ELSE IF privateKeyBytes = NoBytes
          /\ checkKeyBytes(seedBytes, SEED_LENGTH, "undefined") # NoError
  THEN Throw(checkKeyBytes(seedBytes, SEED_LENGTH, "undefined"))
  ELSE IF seedBytes = NoBytes
          /\ checkKeyBytes(privateKeyBytes, SECRET_KEY_LENGTH, "undefined") # NoError
  THEN Throw(checkKeyBytes(privateKeyBytes, SECRET_KEY_LENGTH, "undefined"))
  ELSE Return(DER_PRIVATE_KEY_PREFIX \o
                (IF seedBytes # NoBytes THEN seedBytes ELSE SliceFrom(privateKeyBytes, 32)))

\* privateKeyDerEncode({privateKeyBytes, seedBytes}); NoBytes is an absent argument
privateKeyDerEncode(privateKeyBytes, seedBytes) ==
  IF privateKeyBytes = NoBytes /\ seedBytes = NoBytes
  THEN Throw(Err("TypeError", "privateKeyBytes or seedBytes is required.",
                 "undefined", NoValue))
  ELSE IF privateKeyBytes = NoBytes
          /\ checkKeyBytes(seedBytes, SEED_LENGTH, "undefined") # NoError
  THEN Throw(checkKeyBytes(seedBytes, SEED_LENGTH, "undefined"))
  ELSE IF seedBytes = NoBytes
          /\ checkKeyBytes(privateKeyBytes, SECRET_KEY_LENGTH, "undefined") # NoError
  THEN Throw(checkKeyBytes(privateKeyBytes, SECRET_KEY_LENGTH, "undefined"))
  ELSE LET p == IF seedBytes # NoBytes THEN seedBytes
                ELSE SubSeq(privateKeyBytes, 1, 32)
       IN Return(DER_PRIVATE_KEY_PREFIX \o p)

publicKeyDerEncode(publicKeyBytes) ==
  IF checkKeyBytes(publicKeyBytes, PUBLIC_KEY_LENGTH, "invalidPublicKeyLength") # NoError
  THEN Throw(checkKeyBytes(publicKeyBytes, PUBLIC_KEY_LENGTH, "invalidPublicKeyLength"))
  ELSE Return(DER_PUBLIC_KEY_PREFIX \o publicKeyBytes)

\* createPublicKey(createPrivateKey(der)).export({format: 'der', type: 'spki'})
NodePublicKeyDer(privateKeyDer) ==
  DER_PUBLIC_KEY_PREFIX \o
    Ed25519PublicKey(SliceFrom(privateKeyDer, Len(DER_PRIVATE_KEY_PREFIX)))

\* a key generation that cuts or zero-pads the seed to 32 bytes
generateKeyPairFromSeed_resizesSeed(seedBytes) ==
  LET resized == [i \in 1..SEED_LENGTH |->
                    IF i <= Len(seedBytes) THEN seedBytes[i] ELSE 0]
  IN Return([publicKey |-> Ed25519PublicKey(resized),
             secretKey |-> resized \o Ed25519PublicKey(resized)])

\* api.generateKeyPairFromSeed(seedBytes)
generateKeyPairFromSeed(seedBytes) ==
  LET der == privateKeyDerEncode(NoBytes, seedBytes)
  IN IF der.threw THEN der
     ELSE LET publicKeyBytes == getKeyMaterial(NodePublicKeyDer(der.value))
          IN Return([publicKey |-> publicKeyBytes,
                     secretKey |-> seedBytes \o publicKeyBytes])

\* api.generateKeyPair(): `seed` is what randomBytes(32) returned
generateKeyPair(seed) == generateKeyPairFromSeed(seed)

\* The seed an Ed25519 public key was derived from: what a verification
\* recovers, in the stand-in, where the curve equation would be checked
Ed25519Seed(publicKey) ==
  [i \in 1..SEED_LENGTH |-> ((publicKey[i] + 512 - ((13 * i + 89) % 256)) * 205) % 256]

\* node's sign(null, data, privateKey): a signature is R || S, 32 bytes each,
\* a deterministic function of the seed and the data.  Any fixed map that
\* tells apart seeds and data stands for it.
Ed25519Sign(seed, data) ==
  [i \in 1..(2 * SEED_LENGTH) |->
     (seed[((i - 1) % SEED_LENGTH) + 1] * 7 + 3 * i
      + (IF i <= Len(data) THEN data[i] + 1 ELSE 0)) % 256]

\* node's verify(null, data, publicKey, signature)
Ed25519Verify(publicKey, data, signature) ==
  /\ Len(signature) = 2 * SEED_LENGTH
  /\ signature = Ed25519Sign(Ed25519Seed(publicKey), data)

\* a sign whose signing key is made of both halves of the secret key
sign_bothHalves(privateKeyBytes, data) ==
  LET signWith(der) ==
        IF der.threw THEN der
        ELSE Return(Ed25519Sign([i \in 1..SEED_LENGTH |->
                                   (privateKeyBytes[i] + privateKeyBytes[i + SEED_LENGTH]) % 256],
                                data))
  IN signWith(privateKeyDerEncode(privateKeyBytes, NoBytes))

\* api.sign(privateKeyBytes, data)
sign(privateKeyBytes, data) ==
  LET signWith(der) ==
        IF der.threw THEN der
        ELSE Return(Ed25519Sign(SliceFrom(der.value, Len(DER_PRIVATE_KEY_PREFIX)), data))
  IN signWith(privateKeyDerEncode(privateKeyBytes, NoBytes))

\* a verify that takes any signature of the right length that raised no error
verify_anySignature(publicKeyBytes, data, signature) ==
  LET verifyWith(der) ==
        IF der.threw THEN der ELSE Return(Len(signature) = 2 * SEED_LENGTH)
  IN verifyWith(publicKeyDerEncode(publicKeyBytes))

\* api.verify(publicKeyBytes, data, signature)
verify(publicKeyBytes, data, signature) ==
  LET verifyWith(der) ==
        IF der.threw THEN der
        ELSE Return(Ed25519Verify(SliceFrom(der.value, Len(DER_PUBLIC_KEY_PREFIX)),
                                  data, signature))
  IN verifyWith(publicKeyDerEncode(publicKeyBytes))

\* node's createHash('sha256').update(data).digest(): 32 bytes.  The hash is
\* outside the repository: a fixed map of byte strings to 32 bytes that tells
\* the strings of the model apart stands for it.
RECURSIVE Sha256Lane(_, _, _, _)
Sha256Lane(data, lo, hi, i) ==
  IF lo > hi THEN 0
  ELSE IF lo = hi THEN (data[lo] * (2 * ((i * lo) % 8) + 1)) % 256
  ELSE LET mid == (lo + hi) \div 2
           left == Sha256Lane(data, lo, mid, i)
       IN (left + Sha256Lane(data, mid + 1, hi, i)) % 256
Sha256(data) ==
  [i \in 1..32 |-> (Sha256Lane(data, 1, Len(data), i) + Len(data) + i) % 256]

----------------------------------------------------------------------------
(* Key material and strings the callers of the model supply *)

SEED_01 == Fill(1, SEED_LENGTH)
SEED_00 == Fill(0, SEED_LENGTH)
SEED_RANDOM == [i \in 1..SEED_LENGTH |-> (37 * i + 11) % 256]
ValidSeeds == {SEED_00, SEED_01, SEED_RANDOM}
\* what randomBytes(32) may return
RandomSeeds == {SEED_01, SEED_RANDOM}
BadSeeds == {<<>>, Fill(1, SEED_LENGTH - 1), Fill(1, SEED_LENGTH + 1)}
\* no `seed` option
NoSeed == NoBytes

PublicKeyOf(seed) == Ed25519PublicKey(seed)
SecretKeyOf(seed) == seed \o Ed25519PublicKey(seed)

\* byte arrays that get encoded: well-formed keys and keys of a wrong length
RawKeys ==
  {PublicKeyOf(s) : s \in ValidSeeds} \cup {SecretKeyOf(s) : s \in ValidSeeds}
  \cup {<<>>, SubSeq(PublicKeyOf(SEED_01), 1, 31), Append(PublicKeyOf(SEED_01), 7),
        SubSeq(SecretKeyOf(SEED_01), 1, 63), SEED_01,
        SEED_01 \o PublicKeyOf(SEED_RANDOM)}
EncodeDomain ==
  {h \o k : h \in {<<>>, MULTICODEC_ED25519_PUB_HEADER, MULTICODEC_ED25519_PRIV_HEADER},
            k \in RawKeys}
  \cup {<<237>>}
\* a table of results computed once, beside the computation itself
Cached(cache, input, computed) ==
  IF input \in DOMAIN cache THEN cache[input] ELSE computed

encodeCache == [b \in EncodeDomain |-> _encode(b)]

\* base58btc.encode(bytes)
base58btc_encode(input) == Cached(encodeCache, input, _encode(input))

Chars_PUBLICKEYINFO == <<"P", "U", "B", "L", "I", "C", "K", "E", "Y", "I", "N", "F", "O">>
\* the payload of the 0x01 x 32 seed's public key, as the callers of the tests use it
MOCK_PAYLOAD ==
  base58btc_encode(MULTICODEC_ED25519_PUB_HEADER \o PublicKeyOf(SEED_01))
DecodeDomain ==
  LET strings(cache) ==
        LET variants(mock) ==
              {Chars_PUBLICKEYINFO, Reverse(mock), <<" ">> \o mock, Tail(mock), <<" ">>}
        IN {cache[b] : b \in DOMAIN cache}
           \cup variants(cache[MULTICODEC_ED25519_PUB_HEADER \o PublicKeyOf(SEED_01)])
  IN strings(encodeCache)
decodeCache == [t \in DecodeDomain |-> _decode(t)]

\* base58btc.decode(string): NoBytes is `undefined`
base58btc_decode(input) == Cached(decodeCache, input, _decode(input))

----------------------------------------------------------------------------
(* lib/Ed25519VerificationKey2020.js: helpers *)

HasMultibaseHeader(v) ==
  IsString(v) /\ Len(v) > 0 /\ v[1] = MULTIBASE_BASE58BTC_HEADER

\* encode a multibase base58-btc multicodec key
_encodeMbKey(header, key) ==
  <<MULTIBASE_BASE58BTC_HEADER>> \o base58btc_encode(header \o key)

\* the bytes after the multibase and multicodec headers; NoBytes when the
\* string is absent
_keyBuffer(multibase, header) ==
  LET slice(multicodec) ==
        IF multicodec = NoBytes THEN Throw(UndefinedReadError)
        ELSE Return(SliceFrom(multicodec, Len(header)))
  IN IF Falsy(multibase) THEN Return(NoBytes)
     ELSE IF ~IsString(multibase) THEN Throw(UndefinedReadError)
     ELSE slice(base58btc_decode(SliceFrom(multibase, 1)))

_publicKeyBuffer(this) ==
  _keyBuffer(this.publicKeyMultibase, MULTICODEC_ED25519_PUB_HEADER)

_privateKeyBuffer(this) ==
  _keyBuffer(this.privateKeyMultibase, MULTICODEC_ED25519_PRIV_HEADER)

\* a fingerprint without the multibase prefix
fingerprint_unprefixed(this) == SliceFrom(this.publicKeyMultibase, 1)

\* this.fingerprint()
fingerprint(this) == this.publicKeyMultibase

----------------------------------------------------------------------------
(* lib/Ed25519VerificationKey2020.js: construction *)

FingerprintFormatError ==
  Err("Error", "\"fingerprint\" must be a multibase encoded string.", "undefined",
      NoValue)
FingerprintEncodingError ==
  Err("TypeError", "Invalid encoding of fingerprint.", "undefined", NoValue)
FingerprintMismatchError ==
  Err("Error", "The fingerprint does not match the public key.", "undefined", NoValue)

RequiredError ==
  Err("TypeError", "The \"publicKeyMultibase\" property is required.",
      "undefined", NoValue)
PublicHeaderError(publicKeyMultibase) ==
  Err("Error", "\"publicKeyMultibase\" has invalid header bytes: ", "undefined",
      publicKeyMultibase)
PrivateHeaderError ==
  Err("Error", "\"privateKeyMultibase\" has invalid header bytes.", "undefined",
      NoValue)

\* crypto-ld's LDKeyPair constructor: the shared fields, no validation
LDKeyPair(options) ==
  [id |-> Get(options, "id"),
   controller |-> Get(options, "controller"),
   revoked |-> Get(options, "revoked")]

\* a key identifier derived from the controller whatever id was given
WithKeyId_overwrites(this) ==
  IF Truthy(this.controller)
  THEN [this EXCEPT !.id = this.controller \o <<"#">> \o fingerprint(this)]
  ELSE this

\* set key identifier if controller is provided
WithKeyId(this) ==
  IF Truthy(this.controller) /\ Falsy(this.id)
  THEN [this EXCEPT !.id = this.controller \o <<"#">> \o fingerprint(this)]
  ELSE this

\* if(!publicKeyMultibase) throw new TypeError(...)
CheckRequired_none(publicKeyMultibase) == NoError

CheckRequired(publicKeyMultibase) ==
  IF Falsy(publicKeyMultibase) THEN RequiredError ELSE NoError

\* the header check that looks at the multibase prefix only
_isValidKeyHeader_prefixOnly(multibaseKey, expectedHeader) ==
  Return(HasMultibaseHeader(multibaseKey))

\* check a multibase key for an expected header
_isValidKeyHeader(multibaseKey, expectedHeader) ==
  LET every(keyBytes) ==
        IF keyBytes = NoBytes THEN Throw(UndefinedReadError)
        ELSE Return(\A i \in 1..Len(expectedHeader) :
                      At(keyBytes, i - 1) = expectedHeader[i])
  IN IF ~HasMultibaseHeader(multibaseKey) THEN Return(FALSE)
     ELSE every(base58btc_decode(SliceFrom(multibaseKey, 1)))

\* the error of a header check: what _isValidKeyHeader threw, or `invalid`
\* when it returned false
HeaderError(header, invalid) ==
  IF header.threw THEN header.error
  ELSE IF ~header.value THEN invalid
  ELSE NoError

\* if(!publicKeyMultibase || !_isValidKeyHeader(...)) throw new Error(...)
CheckPublicHeader(publicKeyMultibase) ==
  IF Falsy(publicKeyMultibase) THEN PublicHeaderError(publicKeyMultibase)
  ELSE HeaderError(_isValidKeyHeader(publicKeyMultibase, MULTICODEC_ED25519_PUB_HEADER),
                   PublicHeaderError(publicKeyMultibase))

\* if(privateKeyMultibase && !_isValidKeyHeader(...)) throw new Error(...)
CheckPrivateHeader(privateKeyMultibase) ==
  IF Falsy(privateKeyMultibase) THEN NoError
  ELSE HeaderError(_isValidKeyHeader(privateKeyMultibase, MULTICODEC_ED25519_PRIV_HEADER),
                   PrivateHeaderError)

\* a constructor that leaves the length of the key bytes unchecked
CheckPublicKeyLength_none(this) == NoError

\* check that the passed in keyBytes are 32 bytes
CheckPublicKeyLength(this) ==
  LET check(buffer) ==
        IF buffer.threw THEN buffer.error
        ELSE checkKeyBytes(buffer.value, PUBLIC_KEY_LENGTH, "invalidPublicKeyLength")
  IN check(_publicKeyBuffer(this))

\* the first of the checks, in the order the constructor makes them, that fails
FirstError(errors) ==
  LET failed == {i \in 1..Len(errors) : errors[i] # NoError}
  IN IF failed = {} THEN NoError
     ELSE errors[CHOOSE i \in failed : \A j \in failed : i <= j]

\* throws the error, if there is one, or returns the value
ThrowOrReturn(error, value) ==
  IF error # NoError THEN Throw(error) ELSE Return(value)

\* new Ed25519VerificationKey2020(options)
Constructor(options) ==
  LET construct(super, publicKeyMultibase, privateKeyMultibase) ==
        LET validate(this) ==
              ThrowOrReturn(FirstError(<<CheckRequired(publicKeyMultibase),
                                         CheckPublicHeader(publicKeyMultibase),
                                         CheckPrivateHeader(privateKeyMultibase),
                                         CheckPublicKeyLength(this)>>),
                            this)
        IN validate(WithKeyId([id |-> super.id,
                               controller |-> super.controller,
                               revoked |-> super.revoked,
                               type |-> SUITE_ID,
                               publicKeyMultibase |-> publicKeyMultibase,
                               privateKeyMultibase |-> privateKeyMultibase]))
  IN construct(LDKeyPair(options), Get(options, "publicKeyMultibase"),
               Get(options, "privateKeyMultibase"))

\* a fromFingerprint that strips the multicodec header and encodes the bare
\* key bytes again
fromFingerprint_reencodes(fingerprintArg) ==
  IF ~HasMultibaseHeader(fingerprintArg) THEN Throw(FingerprintFormatError)
  ELSE LET buffer == base58btc_decode(SliceFrom(fingerprintArg, 1))
       IN IF buffer = NoBytes THEN Throw(UndefinedReadError)
          ELSE Constructor("publicKeyMultibase" :>
                 (<<MULTIBASE_BASE58BTC_HEADER>> \o base58btc_encode(SliceFrom(buffer, 2))))

\* Ed25519VerificationKey2020.fromFingerprint({fingerprint})
fromFingerprint(fingerprintArg) ==
  Constructor("publicKeyMultibase" :> fingerprintArg)

\* a bridge that carries the public key over and leaves the private key behind
fromEd25519VerificationKey2018_publicOnly(arg) ==
  LET convert(legacy, publicBytes) ==
        IF ~IsString(Get(legacy, "publicKeyBase58"))
        THEN Throw(Err("TypeError", "\"input\" must be a string.", "undefined", NoValue))
        ELSE IF publicBytes = NoBytes THEN Throw(UndefinedReadError)
        ELSE Constructor([id |-> Get(legacy, "id"),
                          controller |-> Get(legacy, "controller"),
                          publicKeyMultibase |->
                            _encodeMbKey(MULTICODEC_ED25519_PUB_HEADER, publicBytes)])
  IN IF ~Has(arg, "keyPair") THEN Throw(UndefinedReadError)
     ELSE convert(arg["keyPair"],
                  base58btc_decode(Get(arg["keyPair"], "publicKeyBase58")))

\* Ed25519VerificationKey2020.fromEd25519VerificationKey2018({keyPair});
\* `arg` is the object the method destructures
fromEd25519VerificationKey2018(arg) ==
  IF ~Has(arg, "keyPair") THEN Throw(UndefinedReadError)
  ELSE LET legacy == arg["keyPair"]
           publicKeyBase58 == Get(legacy, "publicKeyBase58")
           privateKeyBase58 == Get(legacy, "privateKeyBase58")
           publicBytes == base58btc_decode(publicKeyBase58)
           privateBytes == base58btc_decode(privateKeyBase58)
           keyPair2020 ==
             Constructor([id |-> Get(legacy, "id"),
                          controller |-> Get(legacy, "controller"),
                          publicKeyMultibase |->
                            _encodeMbKey(MULTICODEC_ED25519_PUB_HEADER, publicBytes)])
       IN IF ~IsString(publicKeyBase58)
          THEN Throw(Err("TypeError", "\"input\" must be a string.", "undefined", NoValue))
          ELSE IF publicBytes = NoBytes THEN Throw(UndefinedReadError)
          ELSE IF keyPair2020.threw THEN keyPair2020
          ELSE IF Falsy(privateKeyBase58) THEN keyPair2020
          ELSE IF ~IsString(privateKeyBase58)
          THEN Throw(Err("TypeError", "\"input\" must be a string.", "undefined", NoValue))
          ELSE IF privateBytes = NoBytes THEN Throw(UndefinedReadError)
          ELSE Return([keyPair2020.value EXCEPT !.privateKeyMultibase =
                         _encodeMbKey(MULTICODEC_ED25519_PRIV_HEADER, privateBytes)])

\* a generate that draws fresh randomness whatever the seed
generate_ignoresSeed(options, random) ==
  LET keyObject == generateKeyPair(random)
  IN Constructor(
       [f \in DOMAIN options \ {"seed"} |-> options[f]] @@
       [publicKeyMultibase |->
          _encodeMbKey(MULTICODEC_ED25519_PUB_HEADER, keyObject.value.publicKey),
        privateKeyMultibase |->
          _encodeMbKey(MULTICODEC_ED25519_PRIV_HEADER, keyObject.value.secretKey)])

\* Ed25519VerificationKey2020.generate({seed, ...keyPairOptions});
\* `random` is what randomBytes(32) returns when it is asked
generate(options, random) ==
  LET seed == IF Has(options, "seed") THEN options["seed"] ELSE NoSeed
      keyPairOptions == [f \in DOMAIN options \ {"seed"} |-> options[f]]
      keyObject == IF seed # NoSeed THEN generateKeyPairFromSeed(seed)
                   ELSE generateKeyPair(random)
  IN IF keyObject.threw THEN keyObject
     ELSE Constructor(
            keyPairOptions @@
            [publicKeyMultibase |->
               _encodeMbKey(MULTICODEC_ED25519_PUB_HEADER, keyObject.value.publicKey),
             privateKeyMultibase |->
               _encodeMbKey(MULTICODEC_ED25519_PRIV_HEADER, keyObject.value.secretKey)])

----------------------------------------------------------------------------
(* base64url-universal *)

BASE64URL ==
  <<"A", "B", "C", "D", "E", "F", "G", "H", "I", "J", "K", "L", "M", "N", "O", "P",
    "Q", "R", "S", "T", "U", "V", "W", "X", "Y", "Z",
    "a", "b", "c", "d", "e", "f", "g", "h", "i", "j", "k", "l", "m", "n", "o", "p",
    "q", "r", "s", "t", "u", "v", "w", "x", "y", "z",
    "0", "1", "2", "3", "4", "5", "6", "7", "8", "9", "-", "_">>

Pow2(n) == IF n = 0 THEN 1 ELSE IF n = 2 THEN 4 ELSE IF n = 4 THEN 16
           ELSE IF n = 6 THEN 64 ELSE IF n = 8 THEN 256 ELSE 1024

\* unpadded base64url: character j holds bits 6j .. 6j+5 of the input
base64url_encode(bytes) ==
  [j \in 1..((8 * Len(bytes) + 5) \div 6) |->
     LET i == (6 * (j - 1)) \div 8
         off == (6 * (j - 1)) % 8
         pair == At(bytes, i) * 256 + (IF i + 2 <= Len(bytes) THEN At(bytes, i + 1) ELSE 0)
     IN BASE64URL[((pair \div Pow2(10 - off)) % 64) + 1]]

_base64Value(c) ==
  IF \E i \in 1..64 : BASE64URL[i] = c
  THEN (CHOOSE i \in 1..64 : BASE64URL[i] = c) - 1
  ELSE -1

\* byte k holds bits 8k .. 8k+7 of the characters; NoBytes for a character
\* outside the alphabet
base64url_decode(input) ==
  IF ~IsString(input) \/ \E j \in 1..Len(input) : _base64Value(input[j]) < 0
  THEN NoBytes
  ELSE [k \in 1..((6 * Len(input)) \div 8) |->
          LET i == (8 * (k - 1)) \div 6
              off == (8 * (k - 1)) % 6
              pair == _base64Value(input[i + 1]) * 64 + _base64Value(input[i + 2])
          IN (pair \div Pow2(4 - off)) % 256]

----------------------------------------------------------------------------
(* lib/Ed25519VerificationKey2020.js: JWK thumbprint *)

\* new TextEncoder().encode(string), for the characters a serialized JWK holds
TextEncoder_encode(string) ==
  [j \in 1..Len(string) |->
     LET c == string[j]
         v == _base64Value(c)
     IN IF v >= 52 /\ v < 62 THEN 48 + (v - 52)
        ELSE IF v >= 26 /\ v < 52 THEN 97 + (v - 26)
        ELSE IF v >= 0 /\ v < 26 THEN 65 + v
        ELSE IF v = 62 THEN 45
        ELSE IF v = 63 THEN 95
        ELSE IF c = "{" THEN 123
        ELSE IF c = "}" THEN 125
        ELSE IF c = "\"" THEN 34
        ELSE IF c = ":" THEN 58
        ELSE IF c = "," THEN 44
        ELSE 63]

\* api.sha256digest({data})
sha256digest(data) == Sha256(data)

\* the thumbprint of the key bytes: serialized with the members crv, kty, x,
\* encoded, digested, base64url-encoded
_thumbprint(publicKeyBytes) ==
  base64url_encode(sha256digest(TextEncoder_encode(
    <<"{", "\"", "c", "r", "v", "\"", ":", "\"", "E", "d", "2", "5", "5", "1", "9", "\"", ",", "\"", "k", "t", "y", "\"", ":", "\"", "O", "K", "P", "\"", ",", "\"", "x", "\"", ":", "\"">>
    \o base64url_encode(publicKeyBytes) \o <<"\"", "}">>)))

thumbprintCache == [k \in {PublicKeyOf(s) : s \in ValidSeeds} |-> _thumbprint(k)]

\* a thumbprint over the members in the order kty, crv, x
jwkThumbprint_ktyFirst(this) ==
  LET digest(publicKeyBuffer) ==
        IF publicKeyBuffer.threw THEN publicKeyBuffer
        ELSE Return(base64url_encode(sha256digest(TextEncoder_encode(
               <<"{", "\"", "k", "t", "y", "\"", ":", "\"", "O", "K", "P", "\"", ",", "\"", "c", "r", "v", "\"", ":", "\"", "E", "d", "2", "5", "5", "1", "9", "\"", ",", "\"", "x", "\"", ":", "\"">>
               \o base64url_encode(publicKeyBuffer.value) \o <<"\"", "}">>))))
  IN digest(_publicKeyBuffer(this))

\* this.jwkThumbprint()
jwkThumbprint(this) ==
  LET digest(publicKeyBuffer) ==
        IF publicKeyBuffer.threw THEN publicKeyBuffer
        ELSE Return(Cached(thumbprintCache, publicKeyBuffer.value,
                           _thumbprint(publicKeyBuffer.value)))
  IN digest(_publicKeyBuffer(this))

----------------------------------------------------------------------------
(* lib/Ed25519VerificationKey2020.js: JWK representations *)

JWS_CONTEXT == <<"https://w3id.org/security/jws/v1">>

ToJwkError ==
  Err("TypeError", "Either a \"publicKey\" or a \"privateKey\" is required.",
      "undefined", NoValue)
Base64InputError ==
  Err("TypeError", "\"input\" must be a Uint8Array.", "undefined", NoValue)

\* base64url.encode(buffer) of what a key getter returned: the codec throws on
\* `undefined`
EncodeKeyBuffer(buffer) ==
  IF buffer.threw THEN buffer
  ELSE IF buffer.value = NoBytes THEN Throw(Base64InputError)
  ELSE Return(base64url_encode(buffer.value))

\* this.toJwk({publicKey = true, privateKey = false} = {});
\* `args` is the argument list of the call: <<>> or <<options>>
toJwk(this, args) ==
  LET options == IF Len(args) = 0 THEN EmptyObject ELSE args[1]
      publicKey == IF Has(options, "publicKey") THEN options["publicKey"] ELSE TRUE
      privateKey == Flag(options, "privateKey")
      build(x, d) ==
        IF publicKey /\ x.threw THEN x
        ELSE IF privateKey /\ d.threw THEN d
        ELSE Return([crv |-> <<"Ed25519">>, kty |-> <<"OKP">>]
                    @@ When(publicKey, "x", x.value)
                    @@ When(privateKey, "d", d.value))
  IN IF ~(publicKey \/ privateKey) THEN Throw(ToJwkError)
     ELSE build(EncodeKeyBuffer(_publicKeyBuffer(this)),
                EncodeKeyBuffer(_privateKeyBuffer(this)))

\* this.toJsonWebKey2020(): the id is the text of controller, '#' and the
\* thumbprint
toJsonWebKey2020(this) ==
  LET build(thumbprint, publicKeyJwk) ==
        IF thumbprint.threw THEN thumbprint
        ELSE IF publicKeyJwk.threw THEN publicKeyJwk
        ELSE Return(("@context" :> JWS_CONTEXT)
                    @@ [id |-> this.controller \o <<"#">> \o thumbprint.value,
                        type |-> JWK_SUITE_ID,
                        controller |-> this.controller,
                        publicKeyJwk |-> publicKeyJwk.value])
  IN build(jwkThumbprint(this), toJwk(this, <<[publicKey |-> TRUE]>>))

----------------------------------------------------------------------------
(* lib/Ed25519VerificationKey2020.js: import *)

RECURSIVE from(_)

\* a fromJsonWebKey2020 that takes a key of any curve
fromJsonWebKey2020_anyCurve(arg) ==
  LET convert(publicKeyJwk, publicKeyBytes) ==
        IF Get(publicKeyJwk, "kty") # <<"OKP">>
        THEN Throw(Err("TypeError", "\"kty\" is required to be \"OKP\".", "undefined",
                       NoValue))
        ELSE IF publicKeyBytes = NoBytes THEN Throw(UndefinedReadError)
        ELSE Constructor([id |-> Get(arg, "id"),
                          controller |-> Get(arg, "controller"),
                          publicKeyMultibase |->
                            _encodeMbKey(MULTICODEC_ED25519_PUB_HEADER, publicKeyBytes)])
  IN IF Get(arg, "type") # JWK_SUITE_ID
     THEN Throw(Err("TypeError", "Invalid key type: ", "undefined", Get(arg, "type")))
     ELSE IF ~Has(arg, "publicKeyJwk")
     THEN Throw(Err("TypeError", "\"publicKeyJwk\" property is required.", "undefined",
                    NoValue))
     ELSE convert(arg["publicKeyJwk"], base64url_decode(Get(arg["publicKeyJwk"], "x")))

\* Ed25519VerificationKey2020.fromJsonWebKey2020({id, type, controller, publicKeyJwk})
fromJsonWebKey2020(arg) ==
  IF Get(arg, "type") # JWK_SUITE_ID
  THEN Throw(Err("TypeError", "Invalid key type: ", "undefined", Get(arg, "type")))
  ELSE IF ~Has(arg, "publicKeyJwk")
  THEN Throw(Err("TypeError", "\"publicKeyJwk\" property is required.", "undefined",
                 NoValue))
  ELSE LET publicKeyJwk == arg["publicKeyJwk"]
           publicKeyBytes == base64url_decode(Get(publicKeyJwk, "x"))
       IN IF Get(publicKeyJwk, "kty") # <<"OKP">>
          THEN Throw(Err("TypeError", "\"kty\" is required to be \"OKP\".", "undefined",
                         NoValue))
          ELSE IF Get(publicKeyJwk, "crv") # <<"Ed25519">>
          THEN Throw(Err("TypeError", "\"crv\" is required to be \"Ed25519\".",
                         "undefined", NoValue))
          ELSE IF publicKeyBytes = NoBytes THEN Throw(UndefinedReadError)
          ELSE from([id |-> Get(arg, "id"),
                     controller |-> Get(arg, "controller"),
                     publicKeyMultibase |->
                       _encodeMbKey(MULTICODEC_ED25519_PUB_HEADER, publicKeyBytes)])

\* a from that imports the public fields only
from_publicOnly(options) ==
  Constructor([f \in DOMAIN options \ {"privateKeyMultibase"} |-> options[f]])

\* Ed25519VerificationKey2020.from(options)
from(options) ==
  IF Get(options, "type") = LEGACY_SUITE_ID
  THEN fromEd25519VerificationKey2018(options)
  ELSE IF Get(options, "type") = JWK_SUITE_ID
  THEN fromJsonWebKey2020(options)
  ELSE Constructor(options)

----------------------------------------------------------------------------
(* lib/Ed25519VerificationKey2020.js: export and fingerprints *)

ExportError ==
  Err("TypeError", "Export requires specifying either \"publicKey\" or \"privateKey\".",
      "undefined", NoValue)

\* an export that hands out the private key whenever the instance has one
ExportRecord_privateKeyAlways(this, publicKey, privateKey, includeContext) ==
  ("id" :> this.id) @@ ("type" :> this.type)
  @@ When(includeContext, "@context", SUITE_CONTEXT)
  @@ When(Truthy(this.controller), "controller", this.controller)
  @@ When(publicKey, "publicKeyMultibase", this.publicKeyMultibase)
  @@ When(privateKey \/ Truthy(this.privateKeyMultibase),
          "privateKeyMultibase", this.privateKeyMultibase)
  @@ When(Truthy(this.revoked), "revoked", this.revoked)

\* the record export builds once its argument check has passed
ExportRecord(this, publicKey, privateKey, includeContext) ==
  ("id" :> this.id) @@ ("type" :> this.type)
  @@ When(includeContext, "@context", SUITE_CONTEXT)
  @@ When(Truthy(this.controller), "controller", this.controller)
  @@ When(publicKey, "publicKeyMultibase", this.publicKeyMultibase)
  @@ When(privateKey, "privateKeyMultibase", this.privateKeyMultibase)
  @@ When(Truthy(this.revoked), "revoked", this.revoked)

\* an export without the argument check
export_unguarded(this, args) ==
  LET options == IF Len(args) = 0 THEN EmptyObject ELSE args[1]
  IN Return(ExportRecord(this, Flag(options, "publicKey"), Flag(options, "privateKey"),
                         Flag(options, "includeContext")))

\* this.export({publicKey = false, privateKey = false, includeContext = false} = {});
\* `args` is the argument list of the call: <<>> or <<options>>
export(this, args) ==
  LET options == IF Len(args) = 0 THEN EmptyObject ELSE args[1]
      publicKey == Flag(options, "publicKey")
      privateKey == Flag(options, "privateKey")
      includeContext == Flag(options, "includeContext")
  IN IF ~(publicKey \/ privateKey) THEN Throw(ExportError)
     ELSE Return(ExportRecord(this, publicKey, privateKey, includeContext))

\* a comparison of the lengths only
_isEqualBuffer_lengthOnly(buf1, buf2) == Len(buf1) = Len(buf2)

\* check to ensure that two buffers are byte-for-byte equal
_isEqualBuffer(buf1, buf2) ==
  Len(buf1) = Len(buf2) /\ \A i \in 1..Len(buf1) : buf1[i] = buf2[i]

\* this.verifyFingerprint({fingerprint}): the value is {valid} or {error, valid}
verifyFingerprint(this, fingerprintArg) ==
  IF ~HasMultibaseHeader(fingerprintArg)
  THEN Return([error |-> FingerprintFormatError, valid |-> FALSE])
  ELSE LET fingerprintBuffer == base58btc_decode(SliceFrom(fingerprintArg, 1))
           publicKeyBuffer == _publicKeyBuffer(this)
           valid == At(fingerprintBuffer, 0) = MULTICODEC_ED25519_PUB_HEADER[1]
                    /\ At(fingerprintBuffer, 1) = MULTICODEC_ED25519_PUB_HEADER[2]
                    /\ _isEqualBuffer(publicKeyBuffer.value,
                                      SliceFrom(fingerprintBuffer, 2))
       IN IF fingerprintBuffer = NoBytes
          THEN Return([error |-> FingerprintEncodingError, valid |-> FALSE])
          ELSE IF publicKeyBuffer.threw THEN publicKeyBuffer
          ELSE IF publicKeyBuffer.value = NoBytes THEN Throw(UndefinedReadError)
          ELSE IF ~valid
          THEN Return([error |-> FingerprintMismatchError, valid |-> FALSE])
          ELSE Return([valid |-> TRUE])

NoPrivateKeyError ==
  Err("Error", "A private key is not available for signing.", "undefined", NoValue)
NoPublicKeyError ==
  Err("Error", "A public key is not available for verifying.", "undefined", NoValue)

\* this.signer(): the object it returns, as the key bytes and the id its
\* closure holds
signer(this) ==
  LET capture(privateKeyBuffer) ==
        IF privateKeyBuffer.threw THEN privateKeyBuffer
        ELSE Return([privateKeyBuffer |-> privateKeyBuffer.value, id |-> this.id])
  IN capture(_privateKeyBuffer(this))

\* a sign that hands whatever the closure holds to the adapter
signer_sign_unguarded(signerObject, data) ==
  sign(signerObject.privateKeyBuffer, data)

\* signer.sign({data})
signer_sign(signerObject, data) ==
  IF signerObject.privateKeyBuffer = NoBytes THEN Throw(NoPrivateKeyError)
  ELSE sign(signerObject.privateKeyBuffer, data)

\* this.verifier()
verifier(this) ==
  LET capture(publicKeyBuffer) ==
        IF publicKeyBuffer.threw THEN publicKeyBuffer
        ELSE Return([publicKeyBuffer |-> publicKeyBuffer.value, id |-> this.id])
  IN capture(_publicKeyBuffer(this))

\* verifier.verify({data, signature})
verifier_verify(verifierObject, data, signature) ==
  IF verifierObject.publicKeyBuffer = NoBytes THEN Throw(NoPublicKeyError)
  ELSE verify(verifierObject.publicKeyBuffer, data, signature)

----------------------------------------------------------------------------
(* What the callers pass in *)

CONTROLLER == <<"did:example:1234">>
KEY_ID == <<"did:example:1234#key-1">>
REVOKED == <<"2021-06-01T00:00:00Z">>

Metas ==
  {EmptyObject,
   [controller |-> CONTROLLER],
   [id |-> KEY_ID],
   [id |-> KEY_ID, controller |-> CONTROLLER],
   [controller |-> CONTROLLER, revoked |-> REVOKED]}

PublicKeyMultibaseOf(seed) ==
  _encodeMbKey(MULTICODEC_ED25519_PUB_HEADER, PublicKeyOf(seed))
PrivateKeyMultibaseOf(seed) ==
  _encodeMbKey(MULTICODEC_ED25519_PRIV_HEADER, SecretKeyOf(seed))

PUBLIC_31 == SubSeq(PublicKeyOf(SEED_01), 1, 31)
PUBLIC_33 == Append(PublicKeyOf(SEED_01), 7)
SECRET_63 == SubSeq(SecretKeyOf(SEED_01), 1, 63)
\* 64 bytes whose second half is the public key of another seed
SECRET_MIXED == SEED_01 \o PublicKeyOf(SEED_RANDOM)

\* key strings whose payload has the right header and a wrong length
ShortOrLongPublicKeys ==
  {_encodeMbKey(MULTICODEC_ED25519_PUB_HEADER, PUBLIC_31),
   _encodeMbKey(MULTICODEC_ED25519_PUB_HEADER, PUBLIC_33),
   _encodeMbKey(MULTICODEC_ED25519_PUB_HEADER, <<>>)}
ShortPrivateKeys ==
  {_encodeMbKey(MULTICODEC_ED25519_PRIV_HEADER, SECRET_63),
   _encodeMbKey(MULTICODEC_ED25519_PRIV_HEADER, SEED_01)}

\* key strings without the multibase prefix, or whose payload starts with
\* other bytes than the header asked for
WrongHeaderPublicKeys ==
  {MOCK_PAYLOAD, <<"z">>, Number123,
   PrivateKeyMultibaseOf(SEED_01),
   _encodeMbKey(<<>>, PublicKeyOf(SEED_01)),
   _encodeMbKey(<<>>, <<237>>)}
WrongHeaderPrivateKeys ==
  {Tail(PrivateKeyMultibaseOf(SEED_01)), Number123, PublicKeyMultibaseOf(SEED_01)}

UNDECODABLE == <<"z">> \o Chars_PUBLICKEYINFO

PublicKeyCandidates ==
  {Undefined, <<>>, PublicKeyMultibaseOf(SEED_01), UNDECODABLE}
  \cup WrongHeaderPublicKeys \cup ShortOrLongPublicKeys
PrivateKeyCandidates ==
  {Undefined, <<>>, PrivateKeyMultibaseOf(SEED_01), PrivateKeyMultibaseOf(SEED_RANDOM),
   UNDECODABLE, _encodeMbKey(MULTICODEC_ED25519_PRIV_HEADER, SECRET_MIXED)}
  \cup WrongHeaderPrivateKeys \cup ShortPrivateKeys

With(o, f, v) == IF v = Undefined THEN o ELSE (f :> v) @@ o

InputRecord(meta, publicKeyMultibase, privateKeyMultibase) ==
  With(With(meta, "publicKeyMultibase", publicKeyMultibase),
       "privateKeyMultibase", privateKeyMultibase)

\* construction input records: every public candidate, every private candidate
\* beside a good public key, every combination of the other fields beside an
\* absent public key, and records in which both key strings are bad
ConstructionInputs ==
  {InputRecord(m, p, Undefined) :
     m \in {EmptyObject, [controller |-> CONTROLLER]}, p \in PublicKeyCandidates}
  \cup {InputRecord(m, PublicKeyMultibaseOf(SEED_01), q) :
          m \in {EmptyObject, [controller |-> CONTROLLER]}, q \in PrivateKeyCandidates}
  \cup {InputRecord(m, PublicKeyMultibaseOf(SEED_01), q) :
          m \in Metas, q \in {Undefined, PrivateKeyMultibaseOf(SEED_01)}}
  \cup {InputRecord(m, p, q) :
          m \in Metas, p \in {Undefined, <<>>}, q \in PrivateKeyCandidates}
  \cup {InputRecord(EmptyObject, p, q) :
          p \in PublicKeyCandidates,
          q \in {_encodeMbKey(MULTICODEC_ED25519_PRIV_HEADER, SECRET_63),
                 PublicKeyMultibaseOf(SEED_01), UNDECODABLE}}

\* Ed25519VerificationKey2018 key pairs
LegacyKeyPair(meta, publicKeyBytes, privateKeyBytes) ==
  meta @@ [type |-> LEGACY_SUITE_ID, publicKeyBase58 |-> base58btc_encode(publicKeyBytes)]
  @@ When(privateKeyBytes # NoBytes, "privateKeyBase58", base58btc_encode(privateKeyBytes))

LegacyKeyPairs ==
  {LegacyKeyPair(EmptyObject, PublicKeyOf(SEED_01), NoBytes),
   LegacyKeyPair([id |-> KEY_ID, controller |-> CONTROLLER],
                 PublicKeyOf(SEED_01), SecretKeyOf(SEED_01)),
   LegacyKeyPair([controller |-> CONTROLLER],
                 PublicKeyOf(SEED_RANDOM), SecretKeyOf(SEED_RANDOM)),
   LegacyKeyPair(EmptyObject, PUBLIC_31, NoBytes),
   LegacyKeyPair(EmptyObject, PublicKeyOf(SEED_01), SECRET_63),
   [type |-> LEGACY_SUITE_ID, publicKeyBase58 |-> Chars_PUBLICKEYINFO],
   [type |-> LEGACY_SUITE_ID, publicKeyBase58 |-> Number123],
   [type |-> LEGACY_SUITE_ID,
    publicKeyBase58 |-> base58btc_encode(PublicKeyOf(SEED_01)),
    privateKeyBase58 |-> Chars_PUBLICKEYINFO],
   [type |-> LEGACY_SUITE_ID]}

LegacyArguments == {[keyPair |-> l] : l \in LegacyKeyPairs} \cup {EmptyObject}

JWK_X == base64url_encode(PublicKeyOf(SEED_01))
JsonWebKeys ==
  {[type |-> JWK_SUITE_ID, id |-> KEY_ID, controller |-> CONTROLLER,
    publicKeyJwk |-> [kty |-> <<"OKP">>, crv |-> <<"Ed25519">>, x |-> JWK_X]],
   [type |-> JWK_SUITE_ID,
    publicKeyJwk |-> [kty |-> <<"OKP">>, crv |-> <<"Ed25519">>,
                      x |-> base64url_encode(PUBLIC_31)]],
   [type |-> JWK_SUITE_ID,
    publicKeyJwk |-> [kty |-> <<"EC">>, crv |-> <<"Ed25519">>, x |-> JWK_X]],
   [type |-> JWK_SUITE_ID,
    publicKeyJwk |-> [kty |-> <<"OKP">>, crv |-> <<"P-256">>, x |-> JWK_X]],
   [type |-> JWK_SUITE_ID]}

FromInputs ==
  {InputRecord(m, p, q) :
     m \in {EmptyObject, [type |-> SUITE_ID, controller |-> CONTROLLER]},
     p \in PublicKeyCandidates,
     q \in {Undefined, PrivateKeyMultibaseOf(SEED_01), PublicKeyMultibaseOf(SEED_01)}}
  \cup {[type |-> LEGACY_SUITE_ID, keyPair |-> l] : l \in LegacyKeyPairs}
  \cup LegacyKeyPairs
  \cup JsonWebKeys
  \cup {InputRecord(EmptyObject, PublicKeyMultibaseOf(SEED_01),
                    _encodeMbKey(MULTICODEC_ED25519_PRIV_HEADER, SECRET_MIXED))}

GenerateInputs ==
  {("seed" :> s) @@ m : s \in {SEED_01, SEED_RANDOM},
                        m \in {EmptyObject, [controller |-> CONTROLLER],
                               [id |-> KEY_ID, controller |-> CONTROLLER,
                                revoked |-> REVOKED]}}
  \cup {[seed |-> s] : s \in {SEED_00} \cup BadSeeds}
  \cup {EmptyObject, [controller |-> CONTROLLER]}

FingerprintCandidates ==
  {Undefined, <<>>, UNDECODABLE, <<"z">> \o Reverse(MOCK_PAYLOAD),
   <<"z", " ">> \o MOCK_PAYLOAD,
   PublicKeyMultibaseOf(SEED_01), PublicKeyMultibaseOf(SEED_RANDOM)}
  \cup WrongHeaderPublicKeys \cup ShortOrLongPublicKeys

ExportArguments ==
  {<<>>, <<EmptyObject>>, <<[includeContext |-> TRUE]>>,
   <<[publicKey |-> FALSE, privateKey |-> FALSE, includeContext |-> FALSE]>>,
   <<[publicKey |-> TRUE]>>, <<[privateKey |-> TRUE]>>,
   <<[publicKey |-> TRUE, privateKey |-> TRUE]>>,
   <<[publicKey |-> TRUE, privateKey |-> TRUE, includeContext |-> TRUE]>>}

ToJwkArguments ==
  {<<>>, <<[publicKey |-> TRUE]>>, <<[publicKey |-> FALSE]>>, <<[privateKey |-> TRUE]>>,
   <<[publicKey |-> FALSE, privateKey |-> TRUE]>>}

\* stringToUint8Array('test 1234'), stringToUint8Array('test 4321')
DATA_1234 == <<116, 101, 115, 116, 32, 49, 50, 51, 52>>
DATA_4321 == <<116, 101, 115, 116, 32, 52, 51, 50, 49>>
Messages == {DATA_1234, DATA_4321, <<>>}

\* signatures a caller got elsewhere: of other keys, over other data, with a
\* byte changed, cut short
SignatureCandidates ==
  LET others(signature) ==
        {signature,
         [signature EXCEPT ![1] = (signature[1] + 1) % 256],
         SubSeq(signature, 1, Len(signature) - 1)}
  IN others(Ed25519Sign(SEED_01, DATA_1234))
     \cup {Ed25519Sign(SEED_RANDOM, DATA_1234), Ed25519Sign(SEED_01, <<>>), <<>>}

----------------------------------------------------------------------------
(* A caller's session: it creates instances, keeps one, and works with it *)

\* where the input of a call came from: the caller itself, the record the
\* kept instance just exported (with the arguments of that export), or the
\* fingerprint the kept instance just returned; `of` is the operation that
\* had created the kept instance
CallerSource == [kind |-> "caller", args |-> <<>>, of |-> "none"]

Call(op, input, source, random, outcome) ==
  [op |-> op, input |-> input, source |-> source, random |-> random,
   threw |-> outcome.threw, error |-> outcome.error, value |-> outcome.value]

NoCall == Call("none", EmptyObject, CallerSource, NoBytes, Return(Undefined))
NoKeyPair == [held |-> FALSE, this |-> EmptyObject]

CreationOps ==
  {"constructor", "from", "fromFingerprint", "fromEd25519VerificationKey2018",
   "fromJsonWebKey2020", "generate"}

Init ==
  /\ keyPair = NoKeyPair
  /\ origin = NoCall
  /\ result = NoCall
  /\ instances = EmptyObject
  /\ objects = <<>>
  /\ requests = <<>>

\* new Ed25519VerificationKey2020(options)
Construct ==
  /\ ~keyPair.held
  /\ \E options \in ConstructionInputs :
       result' = Call("constructor", options, CallerSource, NoBytes, Constructor(options))
  /\ UNCHANGED <<keyPair, origin>>
  /\ UNCHANGED handles

\* Ed25519VerificationKey2020.from(options)
From ==
  /\ ~keyPair.held
  /\ \E options \in FromInputs :
       result' = Call("from", options, CallerSource, NoBytes, from(options))
  /\ UNCHANGED <<keyPair, origin>>
  /\ UNCHANGED handles

\* Ed25519VerificationKey2020.fromFingerprint({fingerprint})
FromFingerprint ==
  /\ ~keyPair.held
  /\ \E f \in FingerprintCandidates :
       LET options == With(EmptyObject, "fingerprint", f)
       IN result' = Call("fromFingerprint", options, CallerSource, NoBytes,
                         fromFingerprint(Get(options, "fingerprint")))
  /\ UNCHANGED <<keyPair, origin>>
  /\ UNCHANGED handles

\* Ed25519VerificationKey2020.fromEd25519VerificationKey2018({keyPair})
FromLegacy ==
  /\ ~keyPair.held
  /\ \E arg \in LegacyArguments :
       result' = Call("fromEd25519VerificationKey2018", arg, CallerSource, NoBytes,
                      fromEd25519VerificationKey2018(arg))
  /\ UNCHANGED <<keyPair, origin>>
  /\ UNCHANGED handles

\* Ed25519VerificationKey2020.fromJsonWebKey2020({id, type, controller, publicKeyJwk})
FromJsonWebKey2020 ==
  /\ ~keyPair.held
  /\ \E arg \in JsonWebKeys \cup {[publicKeyJwk |-> [kty |-> <<"OKP">>,
                                                    crv |-> <<"Ed25519">>, x |-> JWK_X]]} :
       result' = Call("fromJsonWebKey2020", arg, CallerSource, NoBytes,
                      fromJsonWebKey2020(arg))
  /\ UNCHANGED <<keyPair, origin>>
  /\ UNCHANGED handles

\* Ed25519VerificationKey2020.generate(options): a first instance, or one more
\* beside a generated instance the caller has kept
Generate ==
  /\ ~keyPair.held \/ origin.op = "generate"
  /\ \E options \in GenerateInputs, random \in RandomSeeds :
       result' = Call("generate", options, CallerSource,
                      IF Has(options, "seed") THEN NoBytes ELSE random,
                      generate(options, random))
  /\ UNCHANGED <<keyPair, origin>>
  /\ UNCHANGED handles

\* the caller keeps the instance a creation returned
Keep ==
  /\ result.op \in CreationOps
  /\ ~result.threw
  /\ keyPair' = [held |-> TRUE, this |-> result.value]
  /\ origin' = result
  /\ UNCHANGED result
  /\ UNCHANGED handles

\* the caller drops the instance
Discard ==
  /\ keyPair.held
  /\ keyPair' = NoKeyPair
  /\ origin' = NoCall
  /\ result' = NoCall
  /\ UNCHANGED handles

\* keyPair.fingerprint()
Fingerprint ==
  /\ keyPair.held
  /\ result' = Call("fingerprint", EmptyObject, CallerSource, NoBytes,
                    Return(fingerprint(keyPair.this)))
  /\ UNCHANGED <<keyPair, origin>>
  /\ UNCHANGED handles

\* keyPair.verifyFingerprint({fingerprint})
VerifyFingerprint ==
  /\ keyPair.held
  /\ \E f \in FingerprintCandidates \cup {fingerprint(keyPair.this)} :
       LET options == With(EmptyObject, "fingerprint", f)
       IN result' = Call("verifyFingerprint", options, CallerSource, NoBytes,
                         verifyFingerprint(keyPair.this, Get(options, "fingerprint")))
  /\ UNCHANGED <<keyPair, origin>>
  /\ UNCHANGED handles

\* keyPair.export(...)
Export ==
  /\ keyPair.held
  /\ \E args \in ExportArguments :
       result' = Call("export", args, CallerSource, NoBytes, export(keyPair.this, args))
  /\ UNCHANGED <<keyPair, origin>>
  /\ UNCHANGED handles

\* keyPair.jwkThumbprint()
JwkThumbprint ==
  /\ keyPair.held
  /\ result' = Call("jwkThumbprint", EmptyObject, CallerSource, NoBytes,
                    jwkThumbprint(keyPair.this))
  /\ UNCHANGED <<keyPair, origin>>
  /\ UNCHANGED handles

\* Ed25519VerificationKey2020.from(exported): the record the kept instance
\* has just exported is imported again
FromExported ==
  /\ keyPair.held
  /\ result.op = "export"
  /\ ~result.threw
  /\ result' = Call("from", result.value,
                    [kind |-> "export", args |-> result.input, of |-> origin.op],
                    NoBytes, from(result.value))
  /\ UNCHANGED <<keyPair, origin>>
  /\ UNCHANGED handles

\* Ed25519VerificationKey2020.fromFingerprint({fingerprint: keyPair.fingerprint()})
FromOwnFingerprint ==
  /\ keyPair.held
  /\ result.op = "fingerprint"
  /\ result' = Call("fromFingerprint", [fingerprint |-> result.value],
                    [kind |-> "fingerprint", args |-> <<>>, of |-> origin.op],
                    NoBytes, fromFingerprint(result.value))
  /\ UNCHANGED <<keyPair, origin>>
  /\ UNCHANGED handles

\* keyPair.signer()
Signer ==
  /\ keyPair.held
  /\ result' = Call("signer", EmptyObject, CallerSource, NoBytes, signer(keyPair.this))
  /\ UNCHANGED <<keyPair, origin>>
  /\ UNCHANGED handles

\* signer.sign({data}), on the signer the kept instance has just returned
Sign ==
  /\ keyPair.held
  /\ result.op = "signer"
  /\ ~result.threw
  /\ \E data \in Messages :
       result' = Call("sign", [data |-> data],
                      [kind |-> "signer", args |-> <<result.value>>, of |-> origin.op],
                      NoBytes, signer_sign(result.value, data))
  /\ UNCHANGED <<keyPair, origin>>
  /\ UNCHANGED handles

\* keyPair.verifier()
Verifier ==
  /\ keyPair.held
  /\ result' = Call("verifier", EmptyObject, CallerSource, NoBytes,
                    verifier(keyPair.this))
  /\ UNCHANGED <<keyPair, origin>>
  /\ UNCHANGED handles

\* keyPair.verifier().verify({data, signature}) with a signature the caller
\* got elsewhere
Verify ==
  /\ keyPair.held
  /\ \E data \in Messages, signature \in SignatureCandidates :
       LET verifyWith(made) ==
             IF made.threw THEN made ELSE verifier_verify(made.value, data, signature)
       IN result' = Call("verify", [data |-> data, signature |-> signature],
                         CallerSource, NoBytes, verifyWith(verifier(keyPair.this)))
  /\ UNCHANGED <<keyPair, origin>>
  /\ UNCHANGED handles

\* keyPair.verifier().verify({data, signature}) with the signature the kept
\* instance's signer has just made; the source keeps the data that was signed
VerifySigned ==
  /\ keyPair.held
  /\ result.op = "sign"
  /\ ~result.threw
  /\ \E data \in Messages :
       LET verifyWith(made) ==
             IF made.threw THEN made ELSE verifier_verify(made.value, data, result.value)
       IN result' = Call("verify", [data |-> data, signature |-> result.value],
                         [kind |-> "signature", args |-> <<result.input.data>>,
                          of |-> origin.op],
                         NoBytes, verifyWith(verifier(keyPair.this)))
  /\ UNCHANGED <<keyPair, origin>>
  /\ UNCHANGED handles

\* keyPair.toJwk(...)
ToJwk ==
  /\ keyPair.held
  /\ \E args \in ToJwkArguments :
       result' = Call("toJwk", args, CallerSource, NoBytes, toJwk(keyPair.this, args))
  /\ UNCHANGED <<keyPair, origin>>
  /\ UNCHANGED handles

\* a toJsonWebKey2020 that keeps the id it computed on the instance
ToJsonWebKey2020_assignsId ==
  /\ keyPair.held
  /\ LET assign(outcome) ==
           /\ result' = Call("toJsonWebKey2020", EmptyObject, CallerSource, NoBytes,
                             outcome)
           /\ keyPair' = IF outcome.threw THEN keyPair
                         ELSE [keyPair EXCEPT !.this.id = outcome.value.id]
     IN assign(toJsonWebKey2020(keyPair.this))
  /\ UNCHANGED origin
  /\ UNCHANGED handles

\* keyPair.toJsonWebKey2020()
ToJsonWebKey2020 ==
  /\ keyPair.held
  /\ result' = Call("toJsonWebKey2020", EmptyObject, CallerSource, NoBytes,
                    toJsonWebKey2020(keyPair.this))
  /\ UNCHANGED <<keyPair, origin>>
  /\ UNCHANGED handles

Next ==
  \/ Construct
  \/ From
  \/ FromFingerprint
  \/ FromLegacy
  \/ FromJsonWebKey2020
  \/ Generate
  \/ Keep
  \/ Discard
  \/ Fingerprint
  \/ VerifyFingerprint
  \/ Export
  \/ FromExported
  \/ FromOwnFingerprint
  \/ Signer
  \/ Sign
  \/ Verifier
  \/ Verify
  \/ VerifySigned
  \/ JwkThumbprint
  \/ ToJwk
  \/ ToJsonWebKey2020

Spec == Init /\ [][Next]_vars

----------------------------------------------------------------------------
(* Signer and verifier objects in use.  A caller holds instances, obtains    *)
(* signer and verifier objects from them, and calls sign and verify through  *)
(* these objects.  sign and verify are async: a call runs up to the `await`  *)
(* of the adapter (the guard, the DER encoding, the key object) and resumes  *)
(* later, after any other call or resumption.                                *)

MaxObjects == 2
MaxRequests == 2
MaxAssigned == 2

\* the instances the caller holds
KEYPAIR_A ==
  generate([seed |-> SEED_01, controller |-> CONTROLLER], NoBytes).value
KEYPAIR_B ==
  generate([seed |-> SEED_RANDOM, id |-> KEY_ID], NoBytes).value

OTHER_KEY_ID == <<"did:example:1234#key-2">>
\* what the caller assigns to a field of an instance
Assignments ==
  {<<"privateKeyMultibase", Undefined>>,
   <<"publicKeyMultibase", PublicKeyMultibaseOf(SEED_RANDOM)>>,
   <<"id", OTHER_KEY_ID>>,
   <<"revoked", REVOKED>>}

\* signatures a caller passes to verify
KnownSignatures ==
  {Ed25519Sign(SEED_01, DATA_1234), Ed25519Sign(SEED_RANDOM, DATA_1234)}

\* the object this.signer() or this.verifier() returns: what its closure
\* holds and the id property; `snapshot` remembers the instance as it was
\* at the call
Obtained(kind, i, made, this) ==
  [kind |-> kind, of |-> i, closure |-> made.value, snapshot |-> this]

\* a call of sign or verify: its arguments, the key object of the adapter
\* once it is made, where the call stands and how it ended; `late` remembers
\* whether the instance had been assigned to since the object was obtained
Started(o, kind, data, signature, key, late) ==
  [object |-> o, kind |-> kind, data |-> data, signature |-> signature,
   late |-> late,
   pc |-> IF key.threw THEN "done" ELSE "await",
   key |-> IF key.threw THEN NoBytes ELSE key.value,
   outcome |-> IF key.threw THEN key ELSE Return(Undefined)]

\* signer.sign({data}) up to the await of api.sign: the guard, then
\* createPrivateKey on the DER encoding
sign_start(closure) ==
  IF closure.privateKeyBuffer = NoBytes THEN Throw(NoPrivateKeyError)
  ELSE privateKeyDerEncode(closure.privateKeyBuffer, NoBytes)

\* verifier.verify({data, signature}) up to the await of api.verify
verify_start(closure) ==
  IF closure.publicKeyBuffer = NoBytes THEN Throw(NoPublicKeyError)
  ELSE publicKeyDerEncode(closure.publicKeyBuffer)

\* after the await: node's sign or verify with the key object of the call
Resumed(request, key) ==
  [request EXCEPT
     !.pc = "done",
     !.outcome =
       IF request.kind = "sign"
       THEN Return(Ed25519Sign(SliceFrom(key, Len(DER_PRIVATE_KEY_PREFIX)),
                               request.data))
       ELSE Return(Ed25519Verify(SliceFrom(key, Len(DER_PUBLIC_KEY_PREFIX)),
                                 request.data, request.signature))]

\* the fields of instance i the caller has assigned to
Assigned(i, original) ==
  {f \in DOMAIN original : instances[i][f] # original[f]}

InitObjects(held) ==
  /\ keyPair = NoKeyPair
  /\ origin = NoCall
  /\ result = NoCall
  /\ instances = held
  /\ objects = <<>>
  /\ requests = <<>>

\* instance.signer()
ObtainSigner ==
  /\ Len(objects) < MaxObjects
  /\ \E i \in DOMAIN instances :
       LET obtain(made) ==
             /\ ~made.threw
             /\ objects' = Append(objects, Obtained("signer", i, made, instances[i]))
       IN obtain(signer(instances[i]))
  /\ UNCHANGED <<instances, requests, session>>

\* instance.verifier()
ObtainVerifier ==
  /\ Len(objects) < MaxObjects
  /\ \E i \in DOMAIN instances :
       LET obtain(made) ==
             /\ ~made.threw
             /\ objects' = Append(objects, Obtained("verifier", i, made, instances[i]))
       IN obtain(verifier(instances[i]))
  /\ UNCHANGED <<instances, requests, session>>

\* instance.<field> = value, by the caller
Assign ==
  /\ \E i \in DOMAIN instances, a \in Assignments :
       /\ instances[i][a[1]] # a[2]
       /\ Cardinality(Assigned(i, KEYPAIR_A)) < MaxAssigned
       /\ instances' = [instances EXCEPT ![i][a[1]] = a[2]]
  /\ UNCHANGED <<objects, requests, session>>

\* a sign that decodes the key of the instance when it is called
CallSign_readsInstance ==
  /\ Len(requests) < MaxRequests
  /\ \E o \in 1..Len(objects), data \in {DATA_1234, DATA_4321} :
       /\ objects[o].kind = "signer"
       /\ LET start(made) ==
                requests' = Append(requests,
                  Started(o, "sign", data, NoBytes, sign_start(made.value),
                          instances[objects[o].of] # objects[o].snapshot))
          IN start(signer(instances[objects[o].of]))
  /\ UNCHANGED <<instances, objects, session>>

\* signer.sign({data})
CallSign ==
  /\ Len(requests) < MaxRequests
  /\ \E o \in 1..Len(objects), data \in {DATA_1234, DATA_4321} :
       /\ objects[o].kind = "signer"
       /\ requests' = Append(requests,
            Started(o, "sign", data, NoBytes, sign_start(objects[o].closure),
                    instances[objects[o].of] # objects[o].snapshot))
  /\ UNCHANGED <<instances, objects, session>>

\* verifier.verify({data, signature})
CallVerify ==
  /\ Len(requests) < MaxRequests
  /\ \E o \in 1..Len(objects), data \in {DATA_1234, DATA_4321},
        signature \in KnownSignatures :
       /\ objects[o].kind = "verifier"
       /\ requests' = Append(requests,
            Started(o, "verify", data, signature, verify_start(objects[o].closure),
                    instances[objects[o].of] # objects[o].snapshot))
  /\ UNCHANGED <<instances, objects, session>>

\* a resumption that uses the key object the latest call of its kind made,
\* as with one key variable shared by the calls
Resume_sharedKey ==
  /\ \E r \in 1..Len(requests) :
       /\ requests[r].pc = "await"
       /\ LET latest == CHOOSE k \in 1..Len(requests) :
                          /\ requests[k].kind = requests[r].kind
                          /\ requests[k].key # NoBytes
                          /\ \A m \in (k + 1)..Len(requests) :
                               \/ requests[m].kind # requests[r].kind
                               \/ requests[m].key = NoBytes
          IN requests' = [requests EXCEPT ![r] = Resumed(requests[r], requests[latest].key)]
  /\ UNCHANGED <<instances, objects, session>>

\* a pending sign or verify call resumes after its await and settles
Resume ==
  /\ \E r \in 1..Len(requests) :
       /\ requests[r].pc = "await"
       /\ requests' = [requests EXCEPT ![r] = Resumed(requests[r], requests[r].key)]
  /\ UNCHANGED <<instances, objects, session>>

\* one instance, its objects, the caller's assignments and calls
NextSnapshot ==
  \/ ObtainSigner
  \/ ObtainVerifier
  \/ Assign
  \/ CallSign
  \/ CallVerify
  \/ Resume

SpecSnapshot == InitObjects([a |-> KEYPAIR_A]) /\ [][NextSnapshot]_vars

\* two instances, their objects, and calls pending together
NextConcurrent ==
  \/ ObtainSigner
  \/ ObtainVerifier
  \/ CallSign
  \/ CallVerify
  \/ Resume

SpecConcurrent ==
  InitObjects([a |-> KEYPAIR_A, b |-> KEYPAIR_B]) /\ [][NextConcurrent]_vars

----------------------------------------------------------------------------
(* Properties *)

\* the public key string a creation was given
InputPublicKey(call) ==
  IF call.op = "fromFingerprint" THEN Get(call.input, "fingerprint")
  ELSE Get(call.input, "publicKeyMultibase")

\* the creation was given a construction input record (section 6 of the
\* specification), not a record tagged as legacy or JsonWebKey2020
OnConstructionInput(call) ==
  /\ call.op \in {"constructor", "from", "fromFingerprint"}
  /\ Get(call.input, "type") \notin {LEGACY_SUITE_ID, JWK_SUITE_ID}

\* what a key string holds after its multibase prefix, decoded
PayloadOf(multibaseKey) == base58btc_decode(SliceFrom(multibaseKey, 1))

\* the key string has the prefix and a decodable payload that starts with `header`
HeaderIs(multibaseKey, header) ==
  /\ HasMultibaseHeader(multibaseKey)
  /\ PayloadOf(multibaseKey) # NoBytes
  /\ At(PayloadOf(multibaseKey), 0) = header[1]
  /\ At(PayloadOf(multibaseKey), 1) = header[2]

\* the key string lacks the prefix, or its payload decodes and starts with
\* other bytes than `header`
HeaderIsWrong(multibaseKey, header) ==
  \/ ~HasMultibaseHeader(multibaseKey)
  \/ /\ PayloadOf(multibaseKey) # NoBytes
     /\ ~HeaderIs(multibaseKey, header)

\* the options of an export ask for both keys
ExportsBoth(args) ==
  Len(args) = 1 /\ Flag(args[1], "publicKey") /\ Flag(args[1], "privateKey")

C2_HeaderFormatError ==
  OnConstructionInput(result) =>
    LET publicKeyMultibase == InputPublicKey(result)
        privateKeyMultibase == Get(result.input, "privateKeyMultibase")
    IN /\ ( /\ Truthy(publicKeyMultibase)
            /\ HeaderIsWrong(publicKeyMultibase, MULTICODEC_ED25519_PUB_HEADER) )
          => /\ result.threw
             /\ result.value = Undefined
             /\ result.error = PublicHeaderError(publicKeyMultibase)
       /\ ( /\ result.op # "fromFingerprint"
            /\ Truthy(privateKeyMultibase)
            /\ HeaderIsWrong(privateKeyMultibase, MULTICODEC_ED25519_PRIV_HEADER) )
          => /\ result.threw
             /\ result.value = Undefined
             /\ HeaderIs(publicKeyMultibase, MULTICODEC_ED25519_PUB_HEADER)
                  => result.error = PrivateHeaderError

C2_Witness ==
  /\ result.op = "fromFingerprint"
  /\ Get(result.input, "fingerprint") = PrivateKeyMultibaseOf(SEED_01)
  /\ result.threw
  /\ result.error = PublicHeaderError(PrivateKeyMultibaseOf(SEED_01))

\* C3: a creation on a construction input record in which publicKeyMultibase
\* is absent (undefined or empty) throws the TypeError 'The
\* "publicKeyMultibase" property is required.' whatever the other fields hold,
\* a bad privateKeyMultibase included: this check comes first.
C3_RequiredFieldError ==
  ( /\ OnConstructionInput(result)
    /\ InputPublicKey(result) \in {Undefined, <<>>} )
  => /\ result.threw
     /\ result.value = Undefined
     /\ result.error.name = "TypeError"
     /\ result.error.message = "The \"publicKeyMultibase\" property is required."

C3_Witness ==
  /\ result.op = "constructor"
  /\ ~Has(result.input, "publicKeyMultibase")
  /\ Get(result.input, "privateKeyMultibase") = UNDECODABLE
  /\ Has(result.input, "controller")
  /\ result.threw
  /\ result.error = RequiredError

\* C4: every instance a creation returns with a privateKeyMultibase has one
\* with the 'z' prefix and the private header whose remaining bytes are
\* exactly 64; a creation whose input private key has the right header and a
\* payload of another length returns no instance.
C4_PrivateKeyIs64Bytes ==
  result.op \in CreationOps =>
    /\ (~result.threw /\ Truthy(result.value.privateKeyMultibase)) =>
         /\ HeaderIs(result.value.privateKeyMultibase, MULTICODEC_ED25519_PRIV_HEADER)
         /\ Len(SliceFrom(PayloadOf(result.value.privateKeyMultibase), 2)) = 64
    /\ ( /\ result.op \in {"constructor", "from"}
         /\ Truthy(Get(result.input, "privateKeyMultibase"))
         /\ HeaderIs(Get(result.input, "privateKeyMultibase"),
                     MULTICODEC_ED25519_PRIV_HEADER)
         /\ Len(SliceFrom(PayloadOf(Get(result.input, "privateKeyMultibase")), 2)) # 64 )
       => result.threw

\* C5: a key pair generated from a valid seed (with any of the other
\* options) is exported with publicKey and privateKey, the record is imported
\* with from(), and the imported instance is exported with the same options:
\* the second record equals the first, field for field and string for string.
C5_ExportFromRoundTrip ==
  ( /\ keyPair.held
    /\ origin.op = "from"
    /\ origin.source.kind = "export"
    /\ origin.source.of = "generate"
    /\ ExportsBoth(origin.source.args)
    /\ result.op = "export"
    /\ result.input = origin.source.args )
  => /\ ~result.threw
     /\ result.value = origin.input

C5_Witness ==
  /\ keyPair.held
  /\ origin.op = "from"
  /\ origin.source.kind = "export"
  /\ origin.source.of = "generate"
  /\ ExportsBoth(origin.source.args)
  /\ result.op = "export"
  /\ result.input = origin.source.args
  /\ ~result.threw
  /\ Has(result.value, "controller")
  /\ Has(result.value, "revoked")
  /\ Truthy(Get(result.value, "privateKeyMultibase"))

\* C6: two generate calls with the same 32-byte seed return instances with the
\* same publicKeyMultibase, the same privateKeyMultibase and the same
\* fingerprint(): the instance kept from the first call is compared with what
\* the second call returns.
C6_GenerateIsDeterministic ==
  ( /\ keyPair.held
    /\ origin.op = "generate"
    /\ Has(origin.input, "seed")
    /\ result.op = "generate"
    /\ Has(result.input, "seed")
    /\ result.input["seed"] = origin.input["seed"]
    /\ Len(result.input["seed"]) = SEED_LENGTH )
  => /\ ~result.threw
     /\ result.value.publicKeyMultibase = keyPair.this.publicKeyMultibase
     /\ result.value.privateKeyMultibase = keyPair.this.privateKeyMultibase
     /\ fingerprint(result.value) = fingerprint(keyPair.this)

C6_Witness ==
  /\ keyPair.held
  /\ origin.op = "generate"
  /\ Has(origin.input, "seed")
  /\ result.op = "generate"
  /\ Has(result.input, "seed")
  /\ result.input["seed"] = origin.input["seed"]
  /\ result.input["seed"] = SEED_RANDOM
  /\ ~Has(origin.input, "controller")
  /\ Has(result.input, "controller")
  /\ ~result.threw
  /\ result.value.privateKeyMultibase = keyPair.this.privateKeyMultibase

C8_VerifyFingerprintNeverThrows ==
  (keyPair.held /\ result.op = "verifyFingerprint") =>
    LET candidate == Get(result.input, "fingerprint")
        matches ==
          /\ HasMultibaseHeader(candidate)
          /\ PayloadOf(candidate) =
               MULTICODEC_ED25519_PUB_HEADER
               \o SliceFrom(PayloadOf(keyPair.this.publicKeyMultibase), 2)
    IN /\ ~result.threw
       /\ Has(result.value, "valid")
       /\ result.value.valid <=> matches
       /\ result.value.valid => ~Has(result.value, "error")
       /\ ~result.value.valid =>
            /\ Has(result.value, "error")
            /\ result.value.error.name \in {"Error", "TypeError"}

C8_Witness ==
  /\ keyPair.held
  /\ result.op = "verifyFingerprint"
  /\ Get(result.input, "fingerprint") = UNDECODABLE
  /\ ~result.threw
  /\ result.value = [error |-> FingerprintEncodingError, valid |-> FALSE]

\* C9: fromFingerprint of the fingerprint() of a kept instance returns an
\* instance without a privateKeyMultibase whose publicKeyMultibase is that of
\* the kept instance, also when the kept instance holds a private key.
C9_FromFingerprintRoundTrip ==
  ( /\ keyPair.held
    /\ result.op = "fromFingerprint"
    /\ result.source.kind = "fingerprint"
    /\ Get(result.input, "fingerprint") = keyPair.this.publicKeyMultibase )
  => /\ ~result.threw
     /\ result.value.privateKeyMultibase = Undefined
     /\ result.value.publicKeyMultibase = keyPair.this.publicKeyMultibase

C9_Witness ==
  /\ keyPair.held
  /\ Truthy(keyPair.this.privateKeyMultibase)
  /\ result.op = "fromFingerprint"
  /\ result.source.kind = "fingerprint"
  /\ Get(result.input, "fingerprint") = keyPair.this.publicKeyMultibase
  /\ ~result.threw
  /\ result.value.privateKeyMultibase = Undefined

\* C10: export with neither publicKey nor privateKey set, export({}) and
\* export() included, throws a TypeError and returns no record, whatever the
\* instance holds.
C10_ExportNeedsAFlag ==
  ( /\ keyPair.held
    /\ result.op = "export"
    /\ \/ Len(result.input) = 0
       \/ ~(Flag(result.input[1], "publicKey") \/ Flag(result.input[1], "privateKey")) )
  => /\ result.threw
     /\ result.value = Undefined
     /\ result.error.name = "TypeError"

C10_Witness ==
  /\ keyPair.held
  /\ Truthy(keyPair.this.privateKeyMultibase)
  /\ result.op = "export"
  /\ Len(result.input) = 0
  /\ result.threw
  /\ result.error = ExportError


\* the options object an export call was given
ExportOptionsOf(call) ==
  IF Len(call.input) = 0 THEN EmptyObject ELSE call.input[1]

ExportFields ==
  {"id", "type", "controller", "@context", "publicKeyMultibase",
   "privateKeyMultibase", "revoked"}

\* C11: a record export returns has no field outside id, type, controller,
\* @context, publicKeyMultibase, privateKeyMultibase, revoked; without the
\* privateKey flag it has no privateKeyMultibase, whatever the instance holds;
\* controller is there only when the instance has one, revoked only when it
\* has one, @context only when includeContext is set; export({publicKey:
\* true}) of an instance with an id, no controller and no revoked value has
\* exactly the fields id, type, publicKeyMultibase.
C11_ExportFieldSet ==
  (result.op = "export" /\ ~result.threw) =>
    LET options == ExportOptionsOf(result)
        this == keyPair.this
        fields == DOMAIN result.value
    IN /\ fields \subseteq ExportFields
       /\ ~Flag(options, "privateKey") => "privateKeyMultibase" \notin fields
       /\ "controller" \in fields => Truthy(this.controller)
       /\ "revoked" \in fields => Truthy(this.revoked)
       /\ "@context" \in fields => Flag(options, "includeContext")
       /\ ( /\ options = [publicKey |-> TRUE]
            /\ Truthy(this.id) /\ Falsy(this.controller) /\ Falsy(this.revoked) )
          => fields = {"id", "type", "publicKeyMultibase"}

C11_Witness ==
  /\ result.op = "export"
  /\ ~result.threw
  /\ result.input = <<[publicKey |-> TRUE]>>
  /\ Truthy(keyPair.this.privateKeyMultibase)
  /\ Truthy(keyPair.this.id)
  /\ Falsy(keyPair.this.controller)
  /\ DOMAIN result.value = {"id", "type", "publicKeyMultibase"}

\* C12: no record export returns holds a field whose value is undefined: a
\* value the instance lacks (its id, its private key) is left out of the
\* record.
C12_AbsentFieldsOmitted ==
  (result.op = "export" /\ ~result.threw) =>
    \A f \in DOMAIN result.value : result.value[f] # Undefined


\* the kept instance has no private key
PublicOnly == keyPair.held /\ Falsy(keyPair.this.privateKeyMultibase)
\* the kept instance has a private key
PublicAndPrivate == keyPair.held /\ Truthy(keyPair.this.privateKeyMultibase)

\* C13 as stated: on an instance without a private key, signer() fails at the
\* signer() call and returns no signer object.
C13_SignerFailsWithoutPrivateKey ==
  (result.op = "signer" /\ PublicOnly) => result.threw

\* C13 as amended: on an instance without a private key, signer() returns a
\* signer object that carries the instance's id and no key bytes; the sign()
\* of that object fails with the error 'A private key is not available for
\* signing.' and produces no signature.
C13_SignFailsWithoutPrivateKey ==
  /\ (result.op = "signer" /\ PublicOnly) =>
       /\ ~result.threw
       /\ result.value = [privateKeyBuffer |-> NoBytes, id |-> keyPair.this.id]
  /\ (result.op = "sign" /\ PublicOnly) =>
       /\ result.threw
       /\ result.error = NoPrivateKeyError
       /\ result.value = Undefined

C13_Witness ==
  /\ result.op = "sign"
  /\ PublicOnly
  /\ result.source.kind = "signer"
  /\ result.error = NoPrivateKeyError


\* the kept instance holds a 64-byte private key whose first half is the seed
\* of its public key
MatchingKeyMaterial ==
  /\ PublicAndPrivate
  /\ HeaderIs(keyPair.this.privateKeyMultibase, MULTICODEC_ED25519_PRIV_HEADER)
  /\ LET secretKey == SliceFrom(PayloadOf(keyPair.this.privateKeyMultibase), 2)
         publicKey == SliceFrom(PayloadOf(keyPair.this.publicKeyMultibase), 2)
     IN /\ Len(secretKey) = SECRET_KEY_LENGTH
        /\ Ed25519PublicKey(SubSeq(secretKey, 1, SEED_LENGTH)) = publicKey

\* the last call verified, with the kept instance, a signature its own signer
\* had just made
VerifiedOwnSignature ==
  /\ keyPair.held
  /\ result.op = "verify"
  /\ result.source.kind = "signature"

\* C14: on a kept instance that generate made, or that holds matching private
\* and public key bytes, every signature signer().sign({data}) returns has 64
\* bytes, and verifier().verify({data, signature}) of that signature over the
\* same data returns true.
C14_SignVerifyRoundTrip ==
  (origin.op = "generate" \/ MatchingKeyMaterial) =>
    /\ result.op = "sign" => (~result.threw /\ Len(result.value) = 64)
    /\ (VerifiedOwnSignature /\ result.input.data = result.source.args[1]) =>
         (~result.threw /\ result.value = TRUE /\ Len(result.input.signature) = 64)

C14_Witness ==
  /\ VerifiedOwnSignature
  /\ origin.op = "generate"
  /\ result.input.data = DATA_1234
  /\ result.source.args[1] = DATA_1234
  /\ ~result.threw
  /\ result.value = TRUE

\* C15: verifying a signature of the kept instance's signer over other data
\* than the data signed returns false; verifying a 64-byte signature that no
\* seed of the instance's public key makes over the data returns false; no
\* such verification throws.
C15_TamperedDataIsFalse ==
  (keyPair.held /\ result.op = "verify") =>
    LET publicKey == SliceFrom(PayloadOf(keyPair.this.publicKeyMultibase), 2)
        data == result.input.data
        signature == result.input.signature
        genuine == {Ed25519Sign(s, data) : s \in {t \in ValidSeeds : PublicKeyOf(t) = publicKey}}
    IN /\ (result.source.kind = "signature" /\ data # result.source.args[1]) =>
            (~result.threw /\ result.value = FALSE)
       /\ (Len(signature) = 64 /\ signature \notin genuine) =>
            (~result.threw /\ result.value = FALSE)

C15_Witness ==
  /\ VerifiedOwnSignature
  /\ MatchingKeyMaterial
  /\ result.source.args[1] = DATA_1234
  /\ result.input.data = DATA_4321
  /\ ~result.threw
  /\ result.value = FALSE


\* the bytes a legacy key pair holds under `field`, NoBytes when it has none
LegacyBytes(legacy, field) ==
  IF IsString(Get(legacy, field)) THEN base58btc_decode(Get(legacy, field))
  ELSE NoBytes

\* a 2018 key pair: a 32-byte public key and, if any, a 64-byte private key
IsLegacyKeyPair(legacy) ==
  /\ Len(LegacyBytes(legacy, "publicKeyBase58")) = PUBLIC_KEY_LENGTH
  /\ LegacyBytes(legacy, "publicKeyBase58") # NoBytes
  /\ Has(legacy, "privateKeyBase58") =>
       Len(LegacyBytes(legacy, "privateKeyBase58")) = SECRET_KEY_LENGTH

\* what the 2018 suite answers for the key pair: its fingerprint is the
\* multibase, multicodec form of the public key, its id the one given or the
\* one derived from controller and fingerprint, its signatures Ed25519 under
\* the seed half of its private key
LegacyFingerprint(legacy) ==
  <<MULTIBASE_BASE58BTC_HEADER>>
    \o base58btc_encode(MULTICODEC_ED25519_PUB_HEADER
                          \o LegacyBytes(legacy, "publicKeyBase58"))
LegacyId(legacy) ==
  IF Truthy(Get(legacy, "id")) THEN Get(legacy, "id")
  ELSE IF Truthy(Get(legacy, "controller"))
  THEN Get(legacy, "controller") \o <<"#">> \o LegacyFingerprint(legacy)
  ELSE Undefined
LegacySignature(legacy, data) ==
  Ed25519Sign(SubSeq(LegacyBytes(legacy, "privateKeyBase58"), 1, SEED_LENGTH), data)

\* the call was the legacy bridge on a 2018 key pair
BridgedLegacyKeyPair(call) ==
  /\ call.op = "fromEd25519VerificationKey2018"
  /\ Has(call.input, "keyPair")
  /\ IsLegacyKeyPair(call.input["keyPair"])

\* C17: fromEd25519VerificationKey2018({keyPair: L}) on a 2018 key pair L
\* returns an instance with L's id and controller whose decoded public and
\* private key bytes are L's base58-decoded bytes; the instance's fingerprint
\* is L's fingerprint, its signer's signatures are L's signatures over the
\* same data, and its verifier takes L's signatures.
C17_LegacyEquivalence ==
  /\ BridgedLegacyKeyPair(result) =>
       LET legacy == result.input["keyPair"]
       IN /\ ~result.threw
          /\ result.value.id = LegacyId(legacy)
          /\ result.value.controller = Get(legacy, "controller")
          /\ SliceFrom(PayloadOf(result.value.publicKeyMultibase), 2)
               = LegacyBytes(legacy, "publicKeyBase58")
          /\ IF Has(legacy, "privateKeyBase58")
             THEN SliceFrom(PayloadOf(result.value.privateKeyMultibase), 2)
                    = LegacyBytes(legacy, "privateKeyBase58")
             ELSE result.value.privateKeyMultibase = Undefined
  /\ (keyPair.held /\ BridgedLegacyKeyPair(origin)) =>
       LET legacy == origin.input["keyPair"]
       IN /\ result.op = "fingerprint" => result.value = LegacyFingerprint(legacy)
          /\ (result.op = "sign" /\ Has(legacy, "privateKeyBase58")) =>
               /\ ~result.threw
               /\ result.value = LegacySignature(legacy, result.input.data)
          /\ ( /\ result.op = "verify"
               /\ Has(legacy, "privateKeyBase58")
               /\ result.input.signature = LegacySignature(legacy, result.input.data) )
             => (~result.threw /\ result.value = TRUE)

C17_Witness ==
  /\ keyPair.held
  /\ BridgedLegacyKeyPair(origin)
  /\ Has(origin.input["keyPair"], "privateKeyBase58")
  /\ result.op = "verify"
  /\ result.source.kind = "caller"
  /\ result.input.signature = LegacySignature(origin.input["keyPair"], DATA_1234)
  /\ result.input.data = DATA_1234
  /\ ~result.threw
  /\ result.value = TRUE


\* C18: from(record) on a record of type Ed25519VerificationKey2018 that
\* carries the public (and optionally private) key of a 2018 key pair returns
\* an instance whose key bytes are the record's decoded bytes; on a record of
\* the current format it does what the constructor does with that record.
C18_FromDispatchesOnType ==
  result.op = "from" =>
    /\ (Get(result.input, "type") = LEGACY_SUITE_ID /\ IsLegacyKeyPair(result.input)) =>
         /\ ~result.threw
         /\ SliceFrom(PayloadOf(result.value.publicKeyMultibase), 2)
              = LegacyBytes(result.input, "publicKeyBase58")
         /\ Has(result.input, "privateKeyBase58") =>
              SliceFrom(PayloadOf(result.value.privateKeyMultibase), 2)
                = LegacyBytes(result.input, "privateKeyBase58")
    /\ Get(result.input, "type") \notin {LEGACY_SUITE_ID, JWK_SUITE_ID} =>
         /\ result.threw = Constructor(result.input).threw
         /\ result.error = Constructor(result.input).error
         /\ result.value = Constructor(result.input).value


\* the call imported a record of type JsonWebKey2020
ImportedJsonWebKey(call) ==
  /\ call.op \in {"fromJsonWebKey2020", "from"}
  /\ Get(call.input, "type") = JWK_SUITE_ID

JsonString(string) == <<"\"">> \o string \o <<"\"">>
JsonMember(name, string) == JsonString(name) \o <<":">> \o JsonString(string)

\* the thumbprint input of RFC 8037 for a public key: the members crv, kty, x
\* in this order
CanonicalJwk(publicKey) ==
  <<"{">> \o JsonMember(<<"c", "r", "v">>, <<"E", "d", "2", "5", "5", "1", "9">>)
  \o <<",">> \o JsonMember(<<"k", "t", "y">>, <<"O", "K", "P">>)
  \o <<",">> \o JsonMember(<<"x">>, base64url_encode(publicKey))
  \o <<"}">>

\* C20: jwkThumbprint() of a kept instance is the base64url form of the
\* digest of {"crv":"Ed25519","kty":"OKP","x":"<base64url of the public key
\* bytes>"}: it depends on the public key bytes alone, whatever the id, the
\* controller, the revoked value and the private key of the instance.
C20_ThumbprintOfPublicKey ==
  (keyPair.held /\ result.op = "jwkThumbprint") =>
    /\ ~result.threw
    /\ result.value =
         base64url_encode(Sha256(TextEncoder_encode(CanonicalJwk(
           SliceFrom(PayloadOf(keyPair.this.publicKeyMultibase), 2)))))

C20_Witness ==
  /\ keyPair.held
  /\ result.op = "jwkThumbprint"
  /\ Truthy(keyPair.this.privateKeyMultibase)
  /\ Truthy(keyPair.this.controller)
  /\ Truthy(keyPair.this.revoked)
  /\ result.value =
       base64url_encode(Sha256(TextEncoder_encode(CanonicalJwk(PublicKeyOf(SEED_01)))))


\* C21: an instance the constructor, from(), fromFingerprint or generate
\* returns on a construction input record has the id the record gave, with or
\* without a controller; without an id and with a controller its id is
\* controller + '#' + fingerprint(); with neither its id is unset.
C21_IdDerivation ==
  ((OnConstructionInput(result) \/ result.op = "generate") /\ ~result.threw) =>
    LET id == Get(result.input, "id")
        controller == Get(result.input, "controller")
    IN /\ Truthy(id) => result.value.id = id
       /\ (~Has(result.input, "id") /\ Truthy(controller)) =>
            result.value.id = controller \o <<"#">> \o fingerprint(result.value)
       /\ (~Has(result.input, "id") /\ ~Has(result.input, "controller")) =>
            result.value.id = Undefined

C21_Witness ==
  /\ result.op = "constructor"
  /\ ~result.threw
  /\ ~Has(result.input, "id")
  /\ Get(result.input, "controller") = CONTROLLER
  /\ result.value.id = CONTROLLER \o <<"#">> \o PublicKeyMultibaseOf(SEED_01)


\* the key string has the prefix and a payload that is no base58-btc
Undecodable(multibaseKey) ==
  HasMultibaseHeader(multibaseKey) /\ PayloadOf(multibaseKey) = NoBytes

\* the key string has the prefix, the header and a payload of another length
LengthIsWrong(multibaseKey, header, length) ==
  /\ HeaderIs(multibaseKey, header)
  /\ Len(SliceFrom(PayloadOf(multibaseKey), 2)) # length

C23_ErrorIndependentOfPrivateKey ==
  ( /\ result.op = "constructor"
    /\ result.threw
    /\ Get(result.input, "publicKeyMultibase") = PublicKeyMultibaseOf(SEED_01)
    /\ Truthy(Get(result.input, "privateKeyMultibase")) )
  => \A q \in PrivateKeyCandidates \ {Undefined, <<>>} :
       LET compare(other) == other.threw => other.error = result.error
       IN compare(Constructor(("privateKeyMultibase" :> q) @@ result.input))


\* the methods of an instance and of the signer and verifier objects it makes
InstanceOps ==
  {"fingerprint", "verifyFingerprint", "export", "toJwk", "jwkThumbprint",
   "toJsonWebKey2020", "signer", "verifier", "sign", "verify"}

\* C24: whatever methods were called on a kept instance since the caller got
\* it, and whether they returned or threw, the instance is what the creation
\* returned: id, controller, type, publicKeyMultibase, privateKeyMultibase and
\* revoked are unchanged, and so are its id and whether it holds a private
\* key.
C24_OperationsChangeNoField ==
  keyPair.held =>
    /\ keyPair.this = origin.value
    /\ DOMAIN keyPair.this =
         {"id", "controller", "type", "publicKeyMultibase", "privateKeyMultibase",
          "revoked"}
    /\ keyPair.this.id = origin.value.id
    /\ Truthy(keyPair.this.privateKeyMultibase) <=> Truthy(origin.value.privateKeyMultibase)

C24_Witness ==
  /\ keyPair.held
  /\ result.op = "toJsonWebKey2020"
  /\ ~result.threw
  /\ result.value.id # keyPair.this.id
  /\ Truthy(keyPair.this.id)
  /\ keyPair.this = origin.value


\* C25: a signature the signer of a kept instance makes with a 64-byte secret
\* key is the Ed25519 signature under the first 32 bytes: it is the signature
\* made with the secret key whose first half is the same and whose second
\* half is zero; with a secret key of another length sign throws the
\* DataError and returns no signature.
C25_SignUsesSeedHalf ==
  (PublicAndPrivate /\ result.op = "sign") =>
    LET secretKey == SliceFrom(PayloadOf(keyPair.this.privateKeyMultibase), 2)
        data == result.input.data
    IN IF Len(secretKey) = SECRET_KEY_LENGTH
       THEN /\ ~result.threw
            /\ result.value = Ed25519Sign(SubSeq(secretKey, 1, SEED_LENGTH), data)
            /\ result.value
                 = sign(SubSeq(secretKey, 1, SEED_LENGTH) \o SEED_00, data).value
       ELSE /\ result.threw
            /\ result.error.name = "DataError"
            /\ result.value = Undefined

C25_Witness ==
  /\ PublicAndPrivate
  /\ SliceFrom(PayloadOf(keyPair.this.privateKeyMultibase), 2) = SECRET_MIXED
  /\ result.op = "sign"
  /\ result.input.data = DATA_1234
  /\ ~result.threw
  /\ result.value = Ed25519Sign(SEED_01, DATA_1234)


\* C26: every instance with a private key that generate or from() returns
\* holds 64 private key bytes whose second half is the instance's public key
\* bytes and whose first half is the seed of that public key: the seed given
\* to generate, or the random bytes it drew.
C26_PrivateMatchesPublic ==
  ( /\ result.op \in {"generate", "from"}
    /\ ~result.threw
    /\ Truthy(result.value.privateKeyMultibase) )
  => LET secretKey == SliceFrom(PayloadOf(result.value.privateKeyMultibase), 2)
         publicKey == SliceFrom(PayloadOf(result.value.publicKeyMultibase), 2)
     IN /\ Len(secretKey) = SECRET_KEY_LENGTH
        /\ SubSeq(secretKey, SEED_LENGTH + 1, SECRET_KEY_LENGTH) = publicKey
        /\ Ed25519PublicKey(SubSeq(secretKey, 1, SEED_LENGTH)) = publicKey
        /\ result.op = "generate" =>
             SubSeq(secretKey, 1, SEED_LENGTH)
               = (IF Has(result.input, "seed") THEN result.input["seed"]
                  ELSE result.random)


\* C27: generate with a seed whose length is not 32, the empty seed included,
\* throws the DataError and returns no instance, whatever randomBytes would
\* return; with a seed of 32 bytes, the all-zero seed included, it returns
\* the instance whose keys derive from that seed.
C27_SeedLengthIsChecked ==
  (result.op = "generate" /\ Has(result.input, "seed")) =>
    LET seed == result.input["seed"]
    IN IF Len(seed) # SEED_LENGTH
       THEN /\ result.threw
            /\ result.value = Undefined
            /\ result.error.name = "DataError"
       ELSE /\ ~result.threw
            /\ SliceFrom(PayloadOf(result.value.publicKeyMultibase), 2)
                 = Ed25519PublicKey(seed)
            /\ SliceFrom(PayloadOf(result.value.privateKeyMultibase), 2)
                 = seed \o Ed25519PublicKey(seed)

C27_Witness ==
  /\ result.op = "generate"
  /\ Has(result.input, "seed")
  /\ result.input["seed"] = <<>>
  /\ result.threw
  /\ result.error.name = "DataError"
  /\ result.value = Undefined


\* C28: a construction input record whose public key string has the prefix
\* and a payload that is no base58-btc is rejected with the error a wrong
\* prefix or a wrong header gets, the public header-format error; a private
\* key string of that kind, beside a valid public key string, with the private
\* header-format error.
C28_UndecodableIsFormatError ==
  OnConstructionInput(result) =>
    /\ Undecodable(InputPublicKey(result)) =>
         /\ result.threw
         /\ result.error = PublicHeaderError(InputPublicKey(result))
    /\ ( /\ result.op # "fromFingerprint"
         /\ InputPublicKey(result) = PublicKeyMultibaseOf(SEED_01)
         /\ Undecodable(Get(result.input, "privateKeyMultibase")) )
       => /\ result.threw
          /\ result.error = PrivateHeaderError


\* what the object gives when the instance it was obtained from is `this`
ClosureOf(kind, this) ==
  IF kind = "signer" THEN signer(this).value ELSE verifier(this).value

\* what a sign or verify call through an object with this closure gives when
\* it runs alone, from its call to its end
Alone(request, closure) ==
  IF request.kind = "sign" THEN signer_sign(closure, request.data)
  ELSE verifier_verify(closure, request.data, request.signature)

\* C29: a signer or verifier object carries the id the instance had when
\* signer() or verifier() was called and the key bytes decoded at that call;
\* whatever the caller assigns to the instance's privateKeyMultibase,
\* publicKeyMultibase, id or revoked afterwards, the object's id stays and
\* every sign or verify call through it ends as it does with the instance as
\* it was at that call.
C29_ObtainedObjectsAreSnapshots ==
  /\ \A o \in 1..Len(objects) :
       /\ objects[o].closure.id = objects[o].snapshot.id
       /\ objects[o].closure = ClosureOf(objects[o].kind, objects[o].snapshot)
  /\ \A r \in 1..Len(requests) :
       requests[r].pc = "done" =>
         requests[r].outcome =
           Alone(requests[r],
                 ClosureOf(objects[requests[r].object].kind,
                           objects[requests[r].object].snapshot))

C29_Witness ==
  \E r \in 1..Len(requests) :
    /\ requests[r].kind = "sign"
    /\ requests[r].late
    /\ requests[r].pc = "done"
    /\ ~requests[r].outcome.threw
    /\ instances["a"].privateKeyMultibase = Undefined
    /\ instances["a"].id # objects[requests[r].object].closure.id


\* C30: with sign and verify calls pending together, through one or several
\* objects of one instance or of two, every call ends as it does when it
\* runs alone, and the instances and the objects stay as they were.
C30_PendingCallsAreIndependent ==
  /\ instances = [a |-> KEYPAIR_A, b |-> KEYPAIR_B]
  /\ \A o \in 1..Len(objects) :
       objects[o].closure = ClosureOf(objects[o].kind, instances[objects[o].of])
  /\ \A r \in 1..Len(requests) :
       requests[r].pc = "done" =>
         requests[r].outcome =
           Alone(requests[r],
                 ClosureOf(objects[requests[r].object].kind,
                           instances[objects[requests[r].object].of]))

C30_Witness ==
  /\ Len(requests) = 2
  /\ requests[1].kind = "sign"
  /\ requests[2].kind = "sign"
  /\ objects[requests[1].object].of # objects[requests[2].object].of
  /\ requests[1].pc = "await"
  /\ requests[2].pc = "done"
  /\ ~requests[2].outcome.threw

=============================================================================
